---- MODULE Spec2Model ----
(***************************************************************************)
(* State-machine model of the face-attendance system: the admin session    *)
(* authority (services/admin_auth.py, routes/admin.py, models/admin.py),    *)
(* the face registries (services/face_recognition.py), the user routes     *)
(* (routes/users.py) and the attendance engine (models/attendance.py,      *)
(* routes/attendance.py).                                                   *)
(*                                                                         *)
(* Conventions                                                             *)
(*  - time is counted in clock ticks, Res ticks to the second, so that the *)
(*    float clock of time.time() has sub-second values and int()/round()   *)
(*    are real conversions;                                                *)
(*  - a face embedding is one number in units of 0.00001; the distance of *)
(*    two embeddings is the absolute difference, a tolerance of 0.45 is    *)
(*    45000, and round(x, 4) is a real conversion;                         *)
(*  - a Python dict that is iterated (the face registries) is a sequence   *)
(*    of [id, enc] entries in insertion order; a dict that is only looked  *)
(*    up (the session store, a database table keyed by a UNIQUE column) is *)
(*    a function on the set of its keys;                                   *)
(*  - secrets.token_urlsafe(32) is modelled as a token never minted        *)
(*    before (tokens are numbered in minting order).                       *)
(***************************************************************************)
EXTENDS Integers, Sequences, FiniteSets, TLC

\* ---------------------------------------------------------------- bounds

\* clock ticks per second
Res == 2
\* how many times the clock may advance in one behaviour
MaxTicks == 2
\* how many session tokens may be minted in one behaviour
MaxTokens == 2

\* ------------------------------------------------------ program constants

ADMIN_SESSION_TIMEOUT == 300
ADMIN_RECOGNITION_TOLERANCE == 45000
FACE_RECOGNITION_TOLERANCE == 50000
SPOOF_DETECTION_ENABLED == TRUE
MIN_REGISTRATION_IMAGES == 3
MIN_SPOOF_FRAMES == 5

\* the session timeout in clock ticks
TTL == ADMIN_SESSION_TIMEOUT * Res

\* ------------------------------------------------------------ input sets

\* Id strings; the same string may be used as an admin_id and as an
\* employee_id (nothing in the code keeps the two namespaces apart).
PersonIds == {"P1", "P2"}
Roles == {"admin", "super_admin"}
EmbVals == {0, 60000}
Tokens == 1..MaxTokens
\* a request's session token: 0 is an absent or empty token
NoToken == 0
TokenInputs == {NoToken} \cup Tokens

\* Python's None for a row, an encoding or a role
NoRow == [none |-> TRUE]
None == "None"
NoEnc == -1
\* None in AntiSpoofingService.prev_frame
NoFrame == -1

\* An image as the handlers see it: ok = decode_base64_image succeeded,
\* faces = number of regions detect_faces finds, enc = the embedding of the
\* face, real = the verdict of analyze_texture on it.
Img(ok, faces, enc, real) == [ok |-> ok, faces |-> faces, enc |-> enc, real |-> real]
Undecodable == Img(FALSE, 0, 0, FALSE)
NoFaceImg == Img(TRUE, 0, 0, TRUE)
TwoFacesImg == Img(TRUE, 2, 0, TRUE)
Face(e) == Img(TRUE, 1, e, TRUE)
Photo(e) == Img(TRUE, 1, e, FALSE)

\* the embedding the camera yields for each person
FaceOf(id) == IF id = "P1" THEN 0 ELSE 60000

\* the probe images of an identification request
ProbeImages == {Undecodable, NoFaceImg, TwoFacesImg} \cup {Face(e) : e \in EmbVals}

\* the image lists of an enrolment request for person id
EnrollSamples(id) ==
    { <<Face(FaceOf(id)), Face(FaceOf(id)), Face(FaceOf(id))>>,
      <<Face(FaceOf(id)), Undecodable, Face(FaceOf(id))>>,
      <<NoFaceImg, TwoFacesImg, NoFaceImg>>,
      <<Photo(FaceOf(id)), Face(FaceOf(id)), Face(FaceOf(id))>> }

\* The spoof_frames of a request, by what the route does with them:
\* "absent" = no spoof_frames key, "few" = fewer than 5 frames decode,
\* "real" / "fake" = at least 5 decode and comprehensive_spoof_check
\* returns overall_is_real = True / False.
SpoofInputs == {"absent", "few", "real", "fake"}

\* a plausible slip: the route asks for the 3 frames the service asks for
ThreeFramesSuffice(decoded) == decoded >= 3

\* the test of the routes before comprehensive_spoof_check: len(frames) >= 5
EnoughFrames(decoded) == decoded >= MIN_SPOOF_FRAMES

\* The spoof input of a request: present = the body has the key
\* spoof_frames, decoded = how many of its frames decode, real = the
\* overall_is_real comprehensive_spoof_check gives for them
SpoofInputOf(present, decoded, real) ==
    IF ~present THEN "absent"
    ELSE IF ~EnoughFrames(decoded) THEN "few"
    ELSE IF real THEN "real"
    ELSE "fake"

\* ------------------------------------------------------------- variables

VARIABLES
    now,          \* the clock, in ticks (time.time(), datetime.utcnow())
    nTicks,       \* how many times the clock has advanced
    adminDbUp,    \* AdminDatabase.get_client() works and its queries succeed
    admins,       \* table admins: admin_id -> [role, is_active, is_registered]
    adminKnown,   \* AdminAuthService.face_service.known_face_encodings
    adminDisk,    \* the files of ADMIN_ENCODINGS_DIR: id -> encoding
    sessions,     \* AdminAuthService._active_sessions: token -> [admin_id, timestamp]
    nextTok,      \* number of tokens minted so far
    dbUp,         \* Database.get_client() works and its queries succeed
    users,        \* table users: employee_id -> [is_registered]
    userKnown,    \* routes/users.py face_service.known_face_encodings
    userDisk,     \* the files of FACE_ENCODINGS_DIR: id -> encoding
    attKnown,     \* routes/attendance.py face_service.known_face_encodings
    prev_frame,   \* routes/attendance.py antispoof_service.prev_frame
    attendance,   \* table attendance: a set of rows
    nextRowId,    \* the SERIAL counter of attendance.id
    calls,        \* session-service calls in flight, one per thread
    requests,     \* attendance requests in flight, one per thread
    checks,       \* comprehensive_spoof_check calls in flight, one per thread
    identified,   \* the last request of POST /api/users/identify and its answer
    enrolments,   \* admin registration requests in flight, one per thread
    blink,        \* a call of AntiSpoofingService.detect_blink and its answer
    dead          \* history: tokens that have been expired or invalidated

authVars == <<adminDbUp, admins, adminKnown, adminDisk, sessions, nextTok>>
userVars == <<dbUp, users, userKnown, userDisk>>
clockVars == <<now, nTicks>>
attVars == <<attKnown, prev_frame, attendance, nextRowId>>
reqVars == <<calls, requests, checks, identified, enrolments, blink>>
vars == <<clockVars, authVars, userVars, attVars, reqVars, dead>>

\* ------------------------------------------------------- dict operations

\* d[k] = v on a function-dict
DictPut(d, k, v) == [x \in DOMAIN d \cup {k} |-> IF x = k THEN v ELSE d[x]]
\* del d[k] on a function-dict
DictDel(d, k) == [x \in DOMAIN d \ {k} |-> d[x]]
EmptyDict == [x \in {} |-> 0]

\* ordered dict (a face registry): keys, lookup, d[k] = v, del d[k]
RegIds(reg) == {reg[i].id : i \in DOMAIN reg}
RegGet(reg, k) == (CHOOSE i \in DOMAIN reg : reg[i].id = k)
RegEnc(reg, k) == reg[RegGet(reg, k)].enc
RegPut(reg, k, v) ==
    IF k \in RegIds(reg)
    THEN [i \in DOMAIN reg |-> IF reg[i].id = k THEN [id |-> k, enc |-> v] ELSE reg[i]]
    ELSE Append(reg, [id |-> k, enc |-> v])
RegDel(reg, k) == SelectSeq(reg, LAMBDA e : e.id # k)

RECURSIVE SumSeq(_)
SumSeq(s) == IF s = <<>> THEN 0 ELSE Head(s) + SumSeq(Tail(s))
Abs(x) == IF x < 0 THEN -x ELSE x
\* Python int(): truncation toward zero of a value given in ticks
IntSeconds(t) == IF t >= 0 THEN t \div Res ELSE -((-t) \div Res)

\* ------------------------------------- FaceRecognitionService (one registry)

\* the embeddings register_face averages: one per image in which exactly
\* one face is detected and an encoding is produced
RECURSIVE ValidEncodings(_)
ValidEncodings(images) ==
    IF images = <<>> THEN <<>>
    ELSE LET im == Head(images)
             rest == ValidEncodings(Tail(images))
         IN IF im.faces = 1 /\ im.enc # NoEnc THEN <<im.enc>> \o rest ELSE rest

\* a plausible slip: the first valid sample is stored instead of the mean
FirstEncoding(encs) == Head(encs)

\* np.mean(encodings, axis=0); exact on the lattice EnrollSamples draws from
MeanEncoding(encs) == SumSeq(encs) \div Len(encs)

\* register_face: the result and the registry (memory and disk) after it
register_face(known, disk, person_id, images) ==
    LET encodings == ValidEncodings(images)
    IN IF Len(encodings) < 1
       THEN [success |-> FALSE, images_used |-> 0, known |-> known, disk |-> disk]
       ELSE [success |-> TRUE, images_used |-> Len(encodings),
             known |-> RegPut(known, person_id, MeanEncoding(encodings)),
             disk |-> DictPut(disk, person_id, MeanEncoding(encodings))]

\* a plausible slip: the entry is dropped from memory and its file is kept
ForgetInMemory(known, disk, person_id) ==
    [known |-> RegDel(known, person_id), disk |-> disk]

\* _delete_encoding / delete_face: the registry after it
delete_face(known, disk, person_id) ==
    [known |-> RegDel(known, person_id), disk |-> DictDel(disk, person_id)]

\* os.listdir of an encodings directory: the files in any order
DirListings(disk) ==
    LET n == Cardinality(DOMAIN disk)
        orders == {o \in [1..n -> DOMAIN disk] : \A i, j \in 1..n : o[i] = o[j] => i = j}
    IN {[i \in 1..n |-> [id |-> o[i], enc |-> disk[o[i]]]] : o \in orders}

\* all_encodings = dict(self.known_face_encodings), then every file of the
\* admin directory assigned over it in listing order
RECURSIVE AllEncodings(_, _)
AllEncodings(known, listing) ==
    IF listing = <<>> THEN known
    ELSE AllEncodings(RegPut(known, Head(listing).id, Head(listing).enc), Tail(listing))

\* face_recognition.face_distance on the lattice
face_distance(a, b) == Abs(a - b)

\* a plausible slip: the scan keeps the first entry instead of the nearest
FirstEntry(all, probe) == 1

\* the scan of identify_face: the first entry, in iteration order, whose
\* distance is strictly below every earlier one and not above any later one
BestMatch(all, probe) ==
    CHOOSE i \in DOMAIN all :
        /\ \A j \in DOMAIN all : face_distance(all[i].enc, probe) <= face_distance(all[j].enc, probe)
        /\ \A j \in 1..(i - 1) : face_distance(all[j].enc, probe) > face_distance(all[i].enc, probe)

\* a plausible slip: the best match is accepted whatever its distance
AcceptsAnyDistance(distance, tol) == TRUE

\* the acceptance test of identify_face: best_match_distance <= self.tolerance
WithinTolerance(distance, tol) == distance <= tol

\* round(confidence, 4) of confidence = 1 - best_match_distance, in units of
\* 0.00001: the nearest multiple of 0.0001, a tie going to the even one
RoundConfidence(distance) ==
    LET c == 100000 - distance
        q == c \div 10
        r == c % 10
    IN 10 * (IF r < 5 THEN q ELSE IF r > 5 THEN q + 1
             ELSE IF q % 2 = 0 THEN q ELSE q + 1)

IdentifyFailure(msg) == [success |-> FALSE, person_id |-> None, confidence |-> 0, message |-> msg]

\* a plausible slip: the first region is used however many were detected,
\* as verify_face does
NeverMultiple(image) == FALSE

\* the test of identify_face on len(face_locations) > 1
MultipleFaces(image) == image.faces > 1

\* identify_face over the combined registry `all` with tolerance tol
identify_face(image, all, tol) ==
    IF image.faces = 0 THEN IdentifyFailure("No face detected in the image")
    ELSE IF MultipleFaces(image) THEN IdentifyFailure("Multiple faces detected")
    ELSE IF image.enc = NoEnc THEN IdentifyFailure("Could not encode the detected face")
    ELSE IF all = <<>> THEN IdentifyFailure("No registered faces in the system")
    ELSE LET best == BestMatch(all, image.enc)
             distance == face_distance(all[best].enc, image.enc)
         IN IF WithinTolerance(distance, tol)
            THEN [success |-> TRUE, person_id |-> all[best].id,
                  confidence |-> RoundConfidence(distance), message |-> "Face identified successfully"]
            ELSE [success |-> FALSE, person_id |-> None,
                  confidence |-> RoundConfidence(distance), message |-> "Face not recognized"]

\* POST /api/users/identify: decode_base64_image, then identify_face of the
\* users face service with include_admins left at True
identify_user(image, known, listing) ==
    IF ~image.ok THEN IdentifyFailure("Could not decode image")
    ELSE identify_face(image, AllEncodings(known, listing), FACE_RECOGNITION_TOLERANCE)

\* a request of POST /api/users/identify and the answer to it
Reply(image, result) == [asked |-> TRUE, image |-> image, result |-> result]
NoReply == [asked |-> FALSE, image |-> Undecodable, result |-> IdentifyFailure(None)]

\* no call of detect_blink
NoBlink == [called |-> FALSE]

\* ------------------------------------------------------------- AdminModel

AdminRow(role, active, registered) ==
    [role |-> role, is_active |-> active, is_registered |-> registered]

has_any_registered_admin(A, up) ==
    up /\ \E id \in DOMAIN A : A[id].is_registered /\ A[id].is_active

\* select ... eq(admin_id).eq(is_active, True)
get_by_admin_id(A, up, admin_id) ==
    IF up /\ admin_id \in DOMAIN A /\ A[admin_id].is_active THEN A[admin_id] ELSE NoRow

\* insert; admin_id is UNIQUE, a conflicting insert raises and create
\* swallows the exception
AdminModel_create(A, up, admin_id, role) ==
    IF up /\ admin_id \notin DOMAIN A
    THEN DictPut(A, admin_id, AdminRow(role, TRUE, FALSE))
    ELSE A

update_registration_status(A, up, admin_id, registered) ==
    IF up /\ admin_id \in DOMAIN A
    THEN [A EXCEPT ![admin_id].is_registered = registered]
    ELSE A

\* update is_active = False where admin_id matches; [ok, admins]
AdminModel_deactivate(A, up, admin_id) ==
    IF up /\ admin_id \in DOMAIN A
    THEN [ok |-> TRUE, admins |-> [A EXCEPT ![admin_id].is_active = FALSE]]
    ELSE [ok |-> FALSE, admins |-> A]

\* ------------------------------------------------------- AdminAuthService

is_first_admin(A, up) == ~has_any_registered_admin(A, up)

\* AdminAuthService.register_admin: [success, images_used, admins, known, disk]
service_register_admin(A, up, known, disk, admin_id, role, images) ==
    LET face_result == register_face(known, disk, admin_id, images)
        existing == get_by_admin_id(A, up, admin_id)
        created == IF existing = NoRow THEN AdminModel_create(A, up, admin_id, role) ELSE A
    IN IF ~face_result.success
       THEN [success |-> FALSE, images_used |-> 0, admins |-> A, known |-> known, disk |-> disk]
       ELSE [success |-> TRUE, images_used |-> face_result.images_used,
             admins |-> update_registration_status(created, up, admin_id, TRUE),
             known |-> face_result.known, disk |-> face_result.disk]

SessionEntry(admin_id, t) == [admin_id |-> admin_id, timestamp |-> t]

\* AdminAuthService.authenticate_admin over the combined registry `all`
\* (identify_face's all_encodings), with the token tok drawn for it:
\* [success, message, admin_id, role, confidence, session_token, sessions]
authenticate_admin(S, A, up, all, image, tok, t) ==
    LET result == identify_face(image, all, ADMIN_RECOGNITION_TOLERANCE)
        admin == get_by_admin_id(A, up, result.person_id)
        fail(msg) == [success |-> FALSE, message |-> msg, admin_id |-> None, role |-> None,
                      confidence |-> 0, session_token |-> NoToken, sessions |-> S]
    IN IF ~result.success THEN fail(result.message)
       ELSE IF admin = NoRow THEN fail("Admin not found in database")
       ELSE IF ~admin.is_active THEN fail("Admin account is deactivated")
       ELSE [success |-> TRUE, message |-> "Welcome", admin_id |-> result.person_id,
             role |-> admin.role, confidence |-> result.confidence,
             session_token |-> tok,
             sessions |-> DictPut(S, tok, SessionEntry(result.person_id, t))]

\* a plausible slip: the session already expires at an age of exactly TTL
ExpiresAtTimeout(age) == age >= TTL

\* the expiry test of verify_session: time.time() - timestamp > TIMEOUT
SessionExpired(age) == age > TTL

\* AdminAuthService.verify_session; t1 is the clock at the expiry test,
\* t2 the clock when remaining_time is computed (after the admin lookup):
\* [valid, message, admin_id, role, remaining_time, sessions]
verify_session(S, A, up, tok, t1, t2) ==
    LET invalid(msg, S2) == [valid |-> FALSE, message |-> msg, admin_id |-> None,
                             role |-> None, remaining_time |-> 0, sessions |-> S2]
    IN IF tok = NoToken THEN invalid("No session token provided", S)
       ELSE IF tok \notin DOMAIN S THEN invalid("Invalid session token", S)
       ELSE IF SessionExpired(t1 - S[tok].timestamp)
            THEN invalid("Session expired. Please re-authenticate.", DictDel(S, tok))
       ELSE LET admin == get_by_admin_id(A, up, S[tok].admin_id)
            IN [valid |-> TRUE, message |-> "", admin_id |-> S[tok].admin_id,
                role |-> IF admin = NoRow THEN None ELSE admin.role,
                remaining_time |-> IntSeconds(TTL - (t2 - S[tok].timestamp)),
                sessions |-> S]

\* a plausible slip: del without the membership test, a KeyError for a
\* token that is not in the store
invalidate_unguarded(S, tok) ==
    IF tok \in DOMAIN S
    THEN [removed |-> TRUE, raised |-> FALSE, sessions |-> [x \in DOMAIN S \ {tok} |-> S[x]]]
    ELSE [removed |-> FALSE, raised |-> TRUE, sessions |-> S]

\* AdminAuthService.invalidate_session: [removed, raised, sessions];
\* raised = the call ended in an exception (it never does: the delete is
\* guarded by the membership test)
invalidate_session(S, tok) ==
    IF tok \in DOMAIN S
    THEN [removed |-> TRUE, raised |-> FALSE, sessions |-> DictDel(S, tok)]
    ELSE [removed |-> FALSE, raised |-> FALSE, sessions |-> S]

\* AdminAuthService.extend_session: [success, sessions]
extend_session(S, tok, t) ==
    IF tok \notin DOMAIN S
    THEN [success |-> FALSE, sessions |-> S]
    ELSE [success |-> TRUE, sessions |-> [S EXCEPT ![tok] = SessionEntry(S[tok].admin_id, t)]]

\* AdminAuthService.deactivate_admin: [success, admins, known, disk]
service_deactivate_admin(A, up, known, disk, admin_id) ==
    LET faces == delete_face(known, disk, admin_id)
        d == AdminModel_deactivate(A, up, admin_id)
    IN [success |-> d.ok, admins |-> d.admins, known |-> faces.known, disk |-> faces.disk]


\* -------------------------------------------------------------- UserModel

UserRow(registered) == [is_registered |-> registered]

get_by_employee_id(U, up, employee_id) ==
    IF up /\ employee_id \in DOMAIN U THEN U[employee_id] ELSE NoRow

\* insert; employee_id is UNIQUE, a conflicting insert raises and create
\* swallows the exception
UserModel_create(U, up, employee_id) ==
    IF up /\ employee_id \notin DOMAIN U THEN DictPut(U, employee_id, UserRow(FALSE)) ELSE U

UserModel_update_registration_status(U, up, employee_id, registered) ==
    IF up /\ employee_id \in DOMAIN U
    THEN [U EXCEPT ![employee_id].is_registered = registered]
    ELSE U

\* UserModel.delete: the attendance rows of the employee first, then the
\* user row: [users, attendance]
UserModel_delete(U, Att, up, employee_id) ==
    IF up
    THEN [users |-> DictDel(U, employee_id),
          attendance |-> {r \in Att : r.employee_id # employee_id}]
    ELSE [users |-> U, attendance |-> Att]

\* ------------------------------------------------------ history variable

\* the tokens of store S whose age exceeds the timeout at time t
ExpiredTokens(S, t) == {k \in DOMAIN S : t - S[k].timestamp > TTL}

\* ------------------------------------------------- routes/admin.py, users.py

\* the images an enrolment route passes on: those that decode
Decoded(images) == SelectSeq(images, LAMBDA im : im.ok)

\* The checks both enrolment routes make on the images, in order; "" = pass
ImageGate(images) ==
    IF Len(images) < MIN_REGISTRATION_IMAGES THEN "too_few_images"
    ELSE IF Len(Decoded(images)) < MIN_REGISTRATION_IMAGES THEN "too_few_decoded"
    ELSE IF SPOOF_DETECTION_ENABLED /\ ~Decoded(images)[1].real THEN "spoof"
    ELSE ""

\* comprehensive_spoof_check is called: at least 5 frames decode.  It
\* leaves the last frame it sampled in prev_frame; the frames of such a
\* request show a scene of gray value 0.
SpoofCheckRuns(spoof) == SPOOF_DETECTION_ENABLED /\ spoof \in {"real", "fake"}

\* a plausible slip: the liveness verdict is computed and not acted on
NeverRejects(spoof) == FALSE

\* The liveness gate of an identification route: TRUE = rejected
LivenessRejects(spoof) == SPOOF_DETECTION_ENABLED /\ spoof = "fake"

\* the in-memory registry AdminAuthService searches: that of its own
\* face_service, constructed over ADMIN_ENCODINGS_DIR
AdminServiceKnown == adminKnown

\* a plausible slip: the role of the session is not looked at
AnyRolePasses(role) == TRUE

\* the role test of the gated routes: session['role'] != 'super_admin' is
\* answered 403
IsSuperAdmin(role) == role = "super_admin"

\* POST /api/admin/register
\* [code, kind, role, admins, known, disk, sessions]
route_register_admin(admin_id, role_req, tok, images) ==
    LET is_first == is_first_admin(admins, adminDbUp)
        session == verify_session(sessions, admins, adminDbUp, tok, now, now)
        S2 == IF is_first THEN sessions ELSE session.sessions
        role == IF is_first THEN "super_admin" ELSE role_req
        result == service_register_admin(admins, adminDbUp, adminKnown, adminDisk,
                                         admin_id, role, Decoded(images))
        reject(code, kind) == [code |-> code, kind |-> kind, role |-> role,
                               admins |-> admins, known |-> adminKnown,
                               disk |-> adminDisk, sessions |-> S2]
    IN IF ~is_first /\ ~session.valid THEN reject(401, "session_invalid")
       ELSE IF ~is_first /\ ~IsSuperAdmin(session.role) THEN reject(403, "insufficient_privilege")
       ELSE IF ImageGate(images) # "" THEN reject(400, ImageGate(images))
       ELSE IF ~result.success THEN reject(400, "no_face")
       ELSE [code |-> 200, kind |-> "registered", role |-> role,
             admins |-> result.admins, known |-> result.known,
             disk |-> result.disk, sessions |-> S2]

RegisterAdmin ==
    \E admin_id \in PersonIds, role_req \in Roles, tok \in TokenInputs :
      \E images \in EnrollSamples(admin_id) :
        LET r == route_register_admin(admin_id, role_req, tok, images)
        IN /\ admins' = r.admins
           /\ adminKnown' = r.known
           /\ adminDisk' = r.disk
           /\ sessions' = r.sessions
           /\ dead' = dead \cup ExpiredTokens(r.sessions, now)
           /\ UNCHANGED <<clockVars, adminDbUp, nextTok, userVars, attVars, reqVars>>

\* POST /api/admin/authenticate, with the token tok drawn for it
\* [code, kind, success, admin_id, role, session_token, sessions]
route_authenticate_admin(image, spoof, listing, tok) ==
    LET r == authenticate_admin(sessions, admins, adminDbUp,
                                AllEncodings(AdminServiceKnown, listing), image, tok, now)
        reject(kind) == [code |-> 400, kind |-> kind, success |-> FALSE,
                         admin_id |-> None, role |-> None, session_token |-> NoToken,
                         sessions |-> sessions]
    IN IF is_first_admin(admins, adminDbUp) THEN reject("requires_setup")
       ELSE IF ~image.ok THEN reject("decode_error")
       ELSE IF LivenessRejects(spoof) THEN reject("liveness")
       ELSE [code |-> IF r.success THEN 200 ELSE 401, kind |-> r.message,
             success |-> r.success, admin_id |-> r.admin_id, role |-> r.role,
             session_token |-> r.session_token, sessions |-> r.sessions]

AuthenticateAdmin ==
    \E image \in ProbeImages, spoof \in SpoofInputs, listing \in DirListings(adminDisk) :
        LET r == route_authenticate_admin(image, spoof, listing, nextTok + 1)
        IN /\ r.success => nextTok < MaxTokens
           /\ sessions' = r.sessions
           /\ nextTok' = IF r.success THEN nextTok + 1 ELSE nextTok
           /\ UNCHANGED <<clockVars, adminDbUp, admins, adminKnown, adminDisk,
                          userVars, attVars, reqVars, dead>>

\* how long the admin lookup inside verify_session may take, in ticks
Latencies == {0, 1, Res}

\* POST /api/admin/verify-session
VerifySession ==
    \E tok \in TokenInputs, lat \in Latencies :
        LET r == verify_session(sessions, admins, adminDbUp, tok, now, now + lat)
        IN /\ lat > 0 => nTicks < MaxTicks
           /\ now' = now + lat
           /\ nTicks' = IF lat > 0 THEN nTicks + 1 ELSE nTicks
           /\ sessions' = r.sessions
           /\ dead' = dead \cup ExpiredTokens(r.sessions, now + lat)
           /\ UNCHANGED <<adminDbUp, admins, adminKnown, adminDisk, nextTok, userVars, attVars, reqVars>>

\* POST /api/admin/extend-session
route_extend_session(tok) == extend_session(sessions, tok, now)

ExtendSession ==
    \E tok \in TokenInputs :
        LET r == route_extend_session(tok)
        IN /\ sessions' = r.sessions
           /\ UNCHANGED <<clockVars, adminDbUp, admins, adminKnown, adminDisk, nextTok,
                          userVars, attVars, reqVars, dead>>

\* POST /api/admin/logout: an exception inside the handler is caught and
\* answered 500 with success = False; [code, success, sessions]
route_logout(tok) ==
    LET r == invalidate_session(sessions, tok)
    IN IF r.raised
       THEN [code |-> 500, success |-> FALSE, sessions |-> r.sessions]
       ELSE [code |-> 200, success |-> TRUE, sessions |-> r.sessions]

Logout ==
    \E tok \in TokenInputs :
        LET r == route_logout(tok)
        IN /\ sessions' = r.sessions
           /\ dead' = dead \cup (IF tok \in DOMAIN sessions THEN {tok} ELSE {})
           /\ UNCHANGED <<clockVars, adminDbUp, admins, adminKnown, adminDisk, nextTok,
                          userVars, attVars, reqVars>>

\* POST /api/admin/deactivate/<admin_id>
\* [code, kind, success, admins, known, disk, sessions]
route_deactivate_admin(admin_id, tok) ==
    LET session == verify_session(sessions, admins, adminDbUp, tok, now, now)
        result == service_deactivate_admin(admins, adminDbUp, adminKnown, adminDisk, admin_id)
        reject(code, kind) == [code |-> code, kind |-> kind, success |-> FALSE,
                               admins |-> admins, known |-> adminKnown,
                               disk |-> adminDisk, sessions |-> session.sessions]
    IN IF ~session.valid THEN reject(401, "session_invalid")
       ELSE IF ~IsSuperAdmin(session.role) THEN reject(403, "insufficient_privilege")
       ELSE [code |-> 200, kind |-> "deactivated", success |-> result.success,
             admins |-> result.admins, known |-> result.known,
             disk |-> result.disk, sessions |-> session.sessions]

DeactivateAdmin ==
    \E admin_id \in PersonIds, tok \in TokenInputs :
        LET r == route_deactivate_admin(admin_id, tok)
        IN /\ admins' = r.admins
           /\ adminKnown' = r.known
           /\ adminDisk' = r.disk
           /\ sessions' = r.sessions
           /\ dead' = dead \cup ExpiredTokens(r.sessions, now)
           /\ UNCHANGED <<clockVars, adminDbUp, nextTok, userVars, attVars, reqVars>>

\* a plausible slip: the answer of verify_session is not looked at
AnySessionPasses(session) == TRUE

\* the session test of the users routes: session.get('valid')
SessionValid(session) == session.valid

\* POST /api/users/register; present = the body has the key
\* admin_session_token: [code, kind, users, known, disk, sessions]
route_register_user(employee_id, present, tok, images) ==
    LET session == verify_session(sessions, admins, adminDbUp, tok, now, now)
        face == register_face(userKnown, userDisk, employee_id, Decoded(images))
        existing == get_by_employee_id(users, dbUp, employee_id)
        created == IF existing = NoRow THEN UserModel_create(users, dbUp, employee_id)
                   ELSE users
        reject(code, kind, S) == [code |-> code, kind |-> kind, users |-> users,
                                  known |-> userKnown, disk |-> userDisk, sessions |-> S]
    IN IF ~present THEN reject(400, "missing_field", sessions)
       ELSE IF ~SessionValid(session) THEN reject(401, "session_invalid", session.sessions)
       ELSE IF ImageGate(images) # "" THEN reject(400, ImageGate(images), session.sessions)
       ELSE IF ~face.success THEN reject(400, "no_face", session.sessions)
       ELSE [code |-> 200, kind |-> "registered",
             users |-> UserModel_update_registration_status(created, dbUp, employee_id, TRUE),
             known |-> face.known, disk |-> face.disk, sessions |-> session.sessions]

\* for the employee ids of ids
RegisterUser(ids) ==
    \E employee_id \in ids, present \in BOOLEAN, tok \in TokenInputs :
      \E images \in EnrollSamples(employee_id) :
        LET r == route_register_user(employee_id, present, tok, images)
        IN /\ sessions' = r.sessions
           /\ users' = r.users
           /\ userKnown' = r.known
           /\ userDisk' = r.disk
           /\ dead' = dead \cup ExpiredTokens(r.sessions, now)
           /\ UNCHANGED <<clockVars, adminDbUp, admins, adminKnown, adminDisk, nextTok,
                          dbUp, attVars, reqVars>>

\* DELETE /api/users/<employee_id>; the token is read with data.get:
\* [code, kind, users, known, disk, attendance, sessions]
route_delete_user(employee_id, tok) ==
    LET session == verify_session(sessions, admins, adminDbUp, tok, now, now)
        face == delete_face(userKnown, userDisk, employee_id)
        del == UserModel_delete(users, attendance, dbUp, employee_id)
    IN IF ~SessionValid(session)
       THEN [code |-> 401, kind |-> "session_invalid", users |-> users,
             known |-> userKnown, disk |-> userDisk, attendance |-> attendance,
             sessions |-> session.sessions]
       ELSE [code |-> 200, kind |-> "deleted", users |-> del.users,
             known |-> face.known, disk |-> face.disk, attendance |-> del.attendance,
             sessions |-> session.sessions]

\* for the employee ids of ids
DeleteUser(ids) ==
    \E employee_id \in ids, tok \in TokenInputs :
        LET r == route_delete_user(employee_id, tok)
        IN /\ sessions' = r.sessions
           /\ users' = r.users
           /\ userKnown' = r.known
           /\ userDisk' = r.disk
           /\ attendance' = r.attendance
           /\ dead' = dead \cup ExpiredTokens(r.sessions, now)
           /\ UNCHANGED <<clockVars, adminDbUp, admins, adminKnown, adminDisk, nextTok,
                          dbUp, nextRowId, attKnown, prev_frame, reqVars>>

\* the clock advances: by one tick, or by the whole session timeout
SessionDeltas == {1, TTL}

Tick(deltas) ==
    \E d \in deltas :
        /\ nTicks < MaxTicks
        /\ now' = now + d
        /\ nTicks' = nTicks + 1
        /\ dead' = dead \cup ExpiredTokens(sessions, now + d)
        /\ UNCHANGED <<authVars, userVars, attVars, reqVars>>

\* --------------------------------------------------------- specification

\* a fresh deployment: empty tables, empty encoding directories, no session
Init ==
    /\ now = 0
    /\ nTicks = 0
    /\ adminDbUp = TRUE
    /\ admins = EmptyDict
    /\ adminKnown = <<>>
    /\ adminDisk = EmptyDict
    /\ sessions = EmptyDict
    /\ nextTok = 0
    /\ dbUp = TRUE
    /\ users = EmptyDict
    /\ userKnown = <<>>
    /\ userDisk = EmptyDict
    /\ attKnown = <<>>
    /\ prev_frame = NoFrame
    /\ attendance = {}
    /\ nextRowId = 1
    /\ calls = <<>>
    /\ requests = <<>>
    /\ checks = <<>>
    /\ identified = NoReply
    /\ enrolments = <<>>
    /\ blink = NoBlink
    /\ dead = {}

Next ==
    \/ RegisterAdmin
    \/ AuthenticateAdmin
    \/ VerifySession
    \/ ExtendSession
    \/ Logout
    \/ DeactivateAdmin
    \/ RegisterUser({"P2"})
    \/ Tick(SessionDeltas)

Spec == Init /\ [][Next]_vars

\* ------------------------------------------ properties: session authority

\* Written from the store and the tables themselves, not from the
\* operators above, so that each property is decided by the handlers.
StoreAge(tok) == now - sessions[tok].timestamp
Live(tok) == tok \in DOMAIN sessions /\ StoreAge(tok) <= ADMIN_SESSION_TIMEOUT * Res
Stale(tok) == tok \in DOMAIN sessions /\ StoreAge(tok) > ADMIN_SESSION_TIMEOUT * Res
ActiveRole(id) == IF id \in DOMAIN admins /\ admins[id].is_active THEN admins[id].role ELSE None
SuperSession(tok) == Live(tok) /\ ActiveRole(sessions[tok].admin_id) = "super_admin"
Without(S, tok) == [k \in DOMAIN S \ {tok} |-> S[k]]
NoneRegistered == ~\E id \in DOMAIN admins : admins[id].is_registered /\ admins[id].is_active
Refused(code) == code \in {401, 403}
\* q is x ticks truncated toward zero to whole seconds
IsTruncation(q, x) ==
    IF x >= 0 THEN q * Res <= x /\ x < (q + 1) * Res
    ELSE q * Res >= x /\ x > (q - 1) * Res

\* C1: bootstrap rule of POST /api/admin/register. While no privileged actor
\* is registered, a request without a token is never refused for its session
\* and an enrolment that succeeds leaves the enrolled actor with role
\* super_admin whatever role was asked; while one is registered, a request is
\* let through only with a live session whose role is super_admin.
C1_BootstrapRule ==
    \A admin_id \in PersonIds, role_req \in Roles, tok \in TokenInputs :
      \A images \in EnrollSamples(admin_id) :
        LET r == route_register_admin(admin_id, role_req, tok, images)
        IN /\ (NoneRegistered /\ tok = NoToken) =>
                /\ ~Refused(r.code)
                /\ r.code = 200 =>
                     admin_id \in DOMAIN r.admins /\ r.admins[admin_id].role = "super_admin"
           /\ (~NoneRegistered /\ ~Refused(r.code)) => SuperSession(tok)

\* the outcome the session gate of a role-gated route owes to token tok
GateOutcome(code, kind, tok) ==
    /\ (tok = NoToken \/ tok \notin DOMAIN sessions \/ Stale(tok)) =>
         code = 401 /\ kind = "session_invalid"
    /\ (Live(tok) /\ ~SuperSession(tok)) => code = 403 /\ kind = "insufficient_privilege"
    /\ SuperSession(tok) => ~Refused(code)
RegistryUntouched(r) == r.admins = admins /\ r.known = adminKnown /\ r.disk = adminDisk

\* C2 as stated: the role-gated routes (register-admin outside bootstrap,
\* deactivate-admin) answer a missing, unknown or expired token with the
\* session-invalid outcome and a live session of another role with the
\* insufficient-privilege outcome, and a refused request changes no face
\* encoding, no admin record and no session entry.
C2_GatedRejectChangesNothing ==
    \A admin_id \in PersonIds, role_req \in Roles, tok \in TokenInputs :
      \A images \in EnrollSamples(admin_id) :
        LET reg == route_register_admin(admin_id, role_req, tok, images)
            deact == route_deactivate_admin(admin_id, tok)
        IN /\ ~NoneRegistered =>
                /\ GateOutcome(reg.code, reg.kind, tok)
                /\ Refused(reg.code) => RegistryUntouched(reg) /\ reg.sessions = sessions
           /\ GateOutcome(deact.code, deact.kind, tok)
           /\ Refused(deact.code) => RegistryUntouched(deact) /\ deact.sessions = sessions

\* C2 amended: as C2, except that a refused request carrying an expired token
\* still in the store removes that token's entry (and nothing else).
C2_GatedRejectEvictsOnlyExpired ==
    \A admin_id \in PersonIds, role_req \in Roles, tok \in TokenInputs :
      \A images \in EnrollSamples(admin_id) :
        LET reg == route_register_admin(admin_id, role_req, tok, images)
            deact == route_deactivate_admin(admin_id, tok)
            after == IF Stale(tok) THEN Without(sessions, tok) ELSE sessions
        IN /\ ~NoneRegistered =>
                /\ GateOutcome(reg.code, reg.kind, tok)
                /\ Refused(reg.code) => RegistryUntouched(reg) /\ reg.sessions = after
           /\ GateOutcome(deact.code, deact.kind, tok)
           /\ Refused(deact.code) => RegistryUntouched(deact) /\ deact.sessions = after

\* an expired token is refused 401 and evicted while a live session of role
\* admin is refused 403
C2_Witness ==
    /\ ~NoneRegistered
    /\ \E tok \in DOMAIN sessions, admin_id \in PersonIds :
         /\ Stale(tok)
         /\ route_deactivate_admin(admin_id, tok).code = 401
         /\ tok \notin DOMAIN route_deactivate_admin(admin_id, tok).sessions
    /\ \E tok \in DOMAIN sessions, admin_id \in PersonIds :
         /\ Live(tok)
         /\ route_deactivate_admin(admin_id, tok).code = 403
         /\ route_register_admin(admin_id, "admin", tok, <<Face(0), Face(0), Face(0)>>).code = 403

\* the ids and embeddings of the privileged registry: the in-memory dict of
\* the admin face service and the files of the admin directory
PrivilegedFaces ==
    {<<adminKnown[i].id, adminKnown[i].enc>> : i \in DOMAIN adminKnown}
        \cup {<<id, adminDisk[id]>> : id \in DOMAIN adminDisk}
SubjectOnly(id) == id \in RegIds(userKnown) /\ id \notin {f[1] : f \in PrivilegedFaces}

\* C3: authenticate_admin mints a token only when the probe lies within the
\* admin tolerance of an identity of the privileged registry (never of an
\* identity held by the subject registry alone) and that actor's record is
\* active; a success adds exactly the entry token -> (admin_id, now) to the
\* session store, every failure leaves the store as it was.
C3_MintOnlyForActivePrivileged ==
    \A image \in ProbeImages, listing \in DirListings(adminDisk) :
        LET tok == nextTok + 1
            r == authenticate_admin(sessions, admins, adminDbUp,
                                    AllEncodings(AdminServiceKnown, listing), image, tok, now)
        IN /\ r.success =>
                /\ image.faces = 1
                /\ \E f \in PrivilegedFaces :
                       /\ f[1] = r.admin_id
                       /\ f[2] - image.enc <= ADMIN_RECOGNITION_TOLERANCE
                       /\ image.enc - f[2] <= ADMIN_RECOGNITION_TOLERANCE
                /\ ~SubjectOnly(r.admin_id)
                /\ r.admin_id \in DOMAIN admins /\ admins[r.admin_id].is_active
                /\ r.session_token = tok /\ tok \notin DOMAIN sessions
                /\ DOMAIN r.sessions = DOMAIN sessions \cup {tok}
                /\ r.sessions[tok] = [admin_id |-> r.admin_id, timestamp |-> now]
                /\ \A k \in DOMAIN sessions : r.sessions[k] = sessions[k]
           /\ ~r.success => r.sessions = sessions /\ r.session_token = NoToken

\* a token has been minted for P1, P2 is enrolled as a subject only, and the
\* probe of P2's face is turned away; so is the probe of a deactivated actor
C3_Witness ==
    /\ \E tok \in DOMAIN sessions : sessions[tok].admin_id = "P1"
    /\ SubjectOnly("P2")
    /\ \A listing \in DirListings(adminDisk) :
         LET r == authenticate_admin(sessions, admins, adminDbUp,
                                     AllEncodings(AdminServiceKnown, listing),
                                     Face(FaceOf("P2")), nextTok + 1, now)
         IN ~r.success /\ r.message = "Face not recognized"

\* C4 as stated: verify_session fails and leaves the store alone for an empty
\* or unknown token, evicts and fails when the age exceeds TTL, and otherwise
\* (age = TTL included) succeeds without renewing the entry, with
\* remaining = TTL - age, a value of [0, TTL].
C4_RemainingIsExact ==
    \A tok \in TokenInputs :
        LET r == verify_session(sessions, admins, adminDbUp, tok, now, now)
        IN /\ (tok = NoToken \/ tok \notin DOMAIN sessions) =>
                ~r.valid /\ r.sessions = sessions
           /\ Stale(tok) => ~r.valid /\ r.sessions = Without(sessions, tok)
           /\ Live(tok) =>
                /\ r.valid /\ r.sessions = sessions
                /\ r.remaining_time * Res = ADMIN_SESSION_TIMEOUT * Res - StoreAge(tok)
                /\ r.remaining_time \in 0..ADMIN_SESSION_TIMEOUT

\* C4 amended: as C4, except that remaining is TTL minus the age at a second
\* clock reading taken after the admin lookup, truncated toward zero to whole
\* seconds; it is at most TTL, and it is at least 0 when less than a second
\* lies between the two readings.
C4_RemainingIsTruncated ==
    \A tok \in TokenInputs, lat \in Latencies :
        LET r == verify_session(sessions, admins, adminDbUp, tok, now, now + lat)
        IN /\ (tok = NoToken \/ tok \notin DOMAIN sessions) =>
                ~r.valid /\ r.sessions = sessions
           /\ Stale(tok) => ~r.valid /\ r.sessions = Without(sessions, tok)
           /\ Live(tok) =>
                /\ r.valid /\ r.sessions = sessions
                /\ IsTruncation(r.remaining_time,
                                ADMIN_SESSION_TIMEOUT * Res - (StoreAge(tok) + lat))
                /\ r.remaining_time <= ADMIN_SESSION_TIMEOUT
                /\ lat < Res => r.remaining_time >= 0

\* a session of age exactly TTL verifies with remaining 0 and, when a second
\* passes inside the call, with remaining -1; another token has been evicted
C4_Witness ==
    \E tok \in DOMAIN sessions :
        /\ StoreAge(tok) = ADMIN_SESSION_TIMEOUT * Res
        /\ verify_session(sessions, admins, adminDbUp, tok, now, now).valid
        /\ verify_session(sessions, admins, adminDbUp, tok, now, now).remaining_time = 0
        /\ verify_session(sessions, admins, adminDbUp, tok, now, now + Res).remaining_time = -1
        /\ \E old \in dead : old \notin DOMAIN sessions

\* C5: extend_session resets lastTouchedAt to now only for a token that is
\* valid now; for a token whose age exceeds TTL, evicted or still in the
\* store, it fails and the token stays invalid; for a token that is not in
\* the store it fails and adds nothing.
C5_ExtendOnlyValid ==
    \A tok \in TokenInputs :
        LET r == route_extend_session(tok)
        IN /\ Live(tok) => r.success /\ r.sessions[tok].timestamp = now
           /\ Stale(tok) =>
                /\ ~r.success
                /\ ~verify_session(r.sessions, admins, adminDbUp, tok, now, now).valid
           /\ tok \notin DOMAIN sessions => ~r.success /\ r.sessions = sessions

\* C6: a token verifies right after the authenticate_admin that minted it,
\* and a token whose age has once exceeded TTL or that invalidate_session has
\* removed never verifies again, whatever is called afterwards.
C6_TerminalStates ==
    [][ /\ nextTok' # nextTok =>
             verify_session(sessions', admins', adminDbUp', nextTok', now', now').valid
        /\ \A tok \in dead' :
             ~verify_session(sessions', admins', adminDbUp', tok, now', now').valid ]_vars

\* C7: invalidate never raises and logout reports success for an unknown,
\* empty, expired or already invalidated token; the entries of all other
\* tokens stay as they are; invalidating twice leaves the store that
\* invalidating once leaves.
C7_InvalidateIdempotent ==
    \A tok \in TokenInputs :
        LET once == invalidate_session(sessions, tok)
            twice == invalidate_session(once.sessions, tok)
            out == route_logout(tok)
        IN /\ ~once.raised /\ ~twice.raised
           /\ out.success /\ out.code = 200
           /\ tok \notin DOMAIN once.sessions
           /\ DOMAIN once.sessions = DOMAIN sessions \ {tok}
           /\ \A k \in DOMAIN sessions \ {tok} : once.sessions[k] = sessions[k]
           /\ twice.sessions = once.sessions
           /\ out.sessions = once.sessions

\* an already invalidated (or evicted) token, an expired token still in the
\* store and a further live token exist; logout of the first changes nothing
C7_Witness ==
    \E gone \in dead, other \in DOMAIN sessions :
        /\ gone \notin DOMAIN sessions
        /\ route_logout(gone).success
        /\ route_logout(gone).sessions = sessions
        /\ \/ Stale(other) /\ other \notin DOMAIN route_logout(other).sessions
           \/ Live(other)

\* ------------------------------- the session store under concurrent calls

\* The Flask server answers each request on its own thread and
\* _active_sessions is a class-level dict with no lock: a call of
\* verify_session, extend_session or invalidate_session is a sequence of
\* single dict operations (membership test, read, write, delete) between
\* which other threads run.

\* number of request threads
NumThreads == 2
Threads == 1..NumThreads
ServiceOps == {"verify", "extend", "invalidate"}

Call(op, tok, pc, admin_id, timestamp, result) ==
    [op |-> op, tok |-> tok, pc |-> pc, admin_id |-> admin_id,
     timestamp |-> timestamp, result |-> result]
IdleCall == Call("none", NoToken, "idle", None, 0, "none")
Done(c, result) == [c EXCEPT !.pc = "done", !.result = result]
At(t, op, pc) == calls[t].op = op /\ calls[t].pc = pc
SessionFrame == UNCHANGED <<clockVars, adminDbUp, admins, adminKnown, adminDisk, nextTok,
                            userVars, attVars, requests, checks, identified, enrolments, blink, dead>>

\* a thread enters one of the three service methods
CallBegin(t) ==
    \E op \in ServiceOps, tok \in TokenInputs :
        /\ calls[t].pc = "idle"
        /\ calls' = [calls EXCEPT ![t] = Call(op, tok, "check", None, 0, "none")]
        /\ UNCHANGED sessions
        /\ SessionFrame

\* verify_session: if not session_token / if session_token not in store
VerifyCheck(t) ==
    /\ At(t, "verify", "check")
    /\ calls' = [calls EXCEPT ![t] =
                    IF calls[t].tok = NoToken THEN Done(calls[t], "no_token")
                    ELSE IF calls[t].tok \notin DOMAIN sessions THEN Done(calls[t], "invalid")
                    ELSE [calls[t] EXCEPT !.pc = "read"]]
    /\ UNCHANGED sessions
    /\ SessionFrame

\* verify_session: admin_id, timestamp = self._active_sessions[session_token]
VerifyRead(t) ==
    /\ At(t, "verify", "read")
    /\ calls' = [calls EXCEPT ![t] =
                    IF calls[t].tok \notin DOMAIN sessions THEN Done(calls[t], "KeyError")
                    ELSE [calls[t] EXCEPT !.pc = "expiry",
                                   !.admin_id = sessions[calls[t].tok].admin_id,
                                   !.timestamp = sessions[calls[t].tok].timestamp]]
    /\ UNCHANGED sessions
    /\ SessionFrame

\* verify_session: if time.time() - timestamp > ADMIN_SESSION_TIMEOUT
VerifyExpiry(t) ==
    /\ At(t, "verify", "expiry")
    /\ calls' = [calls EXCEPT ![t] =
                    IF SessionExpired(now - calls[t].timestamp) THEN [calls[t] EXCEPT !.pc = "evict"]
                    ELSE Done(calls[t], "valid")]
    /\ UNCHANGED sessions
    /\ SessionFrame

\* verify_session: del self._active_sessions[session_token]
VerifyEvict(t) ==
    /\ At(t, "verify", "evict")
    /\ IF calls[t].tok \in DOMAIN sessions
       THEN /\ sessions' = DictDel(sessions, calls[t].tok)
            /\ calls' = [calls EXCEPT ![t] = Done(calls[t], "expired")]
       ELSE /\ UNCHANGED sessions
            /\ calls' = [calls EXCEPT ![t] = Done(calls[t], "KeyError")]
    /\ SessionFrame

\* extend_session: if session_token not in self._active_sessions
ExtendCheck(t) ==
    /\ At(t, "extend", "check")
    /\ calls' = [calls EXCEPT ![t] =
                    IF calls[t].tok \notin DOMAIN sessions THEN Done(calls[t], "invalid")
                    ELSE [calls[t] EXCEPT !.pc = "read"]]
    /\ UNCHANGED sessions
    /\ SessionFrame

\* extend_session: admin_id, _ = self._active_sessions[session_token]
ExtendRead(t) ==
    /\ At(t, "extend", "read")
    /\ calls' = [calls EXCEPT ![t] =
                    IF calls[t].tok \notin DOMAIN sessions THEN Done(calls[t], "KeyError")
                    ELSE [calls[t] EXCEPT !.pc = "write", !.admin_id = sessions[calls[t].tok].admin_id]]
    /\ UNCHANGED sessions
    /\ SessionFrame

\* extend_session: self._active_sessions[session_token] = (admin_id, time.time())
ExtendWrite(t) ==
    /\ At(t, "extend", "write")
    /\ sessions' = DictPut(sessions, calls[t].tok, SessionEntry(calls[t].admin_id, now))
    /\ calls' = [calls EXCEPT ![t] = Done(calls[t], "extended")]
    /\ SessionFrame

\* invalidate_session: if session_token in self._active_sessions
InvalidateCheck(t) ==
    /\ At(t, "invalidate", "check")
    /\ calls' = [calls EXCEPT ![t] =
                    IF calls[t].tok \notin DOMAIN sessions THEN Done(calls[t], "absent")
                    ELSE [calls[t] EXCEPT !.pc = "delete"]]
    /\ UNCHANGED sessions
    /\ SessionFrame

\* invalidate_session: del self._active_sessions[session_token]
InvalidateDelete(t) ==
    /\ At(t, "invalidate", "delete")
    /\ IF calls[t].tok \in DOMAIN sessions
       THEN /\ sessions' = DictDel(sessions, calls[t].tok)
            /\ calls' = [calls EXCEPT ![t] = Done(calls[t], "removed")]
       ELSE /\ UNCHANGED sessions
            /\ calls' = [calls EXCEPT ![t] = Done(calls[t], "KeyError")]
    /\ SessionFrame

\* a running server: the super admin P1 is enrolled and holds the session
\* minted at time 0; no call is in flight
InitSessions ==
    /\ now = 0
    /\ nTicks = 0
    /\ adminDbUp = TRUE
    /\ admins = DictPut(EmptyDict, "P1", AdminRow("super_admin", TRUE, TRUE))
    /\ adminKnown = <<[id |-> "P1", enc |-> FaceOf("P1")]>>
    /\ adminDisk = DictPut(EmptyDict, "P1", FaceOf("P1"))
    /\ sessions = DictPut(EmptyDict, 1, SessionEntry("P1", 0))
    /\ nextTok = 1
    /\ dbUp = TRUE
    /\ users = EmptyDict
    /\ userKnown = <<>>
    /\ userDisk = EmptyDict
    /\ attKnown = <<>>
    /\ prev_frame = NoFrame
    /\ attendance = {}
    /\ nextRowId = 1
    /\ calls = [t \in Threads |-> IdleCall]
    /\ requests = <<>>
    /\ checks = <<>>
    /\ identified = NoReply
    /\ enrolments = <<>>
    /\ blink = NoBlink
    /\ dead = {}

NextSessions ==
    \/ \E t \in Threads :
         \/ CallBegin(t)
         \/ VerifyCheck(t)
         \/ VerifyRead(t)
         \/ VerifyExpiry(t)
         \/ VerifyEvict(t)
         \/ ExtendCheck(t)
         \/ ExtendRead(t)
         \/ ExtendWrite(t)
         \/ InvalidateCheck(t)
         \/ InvalidateDelete(t)
    \/ Tick(SessionDeltas)

SpecSessions == InitSessions /\ [][NextSessions]_vars

Quiescent == \A t \in Threads : calls[t].pc \in {"idle", "done"}

\* no call ends in the KeyError of a read or delete of an entry that another
\* call removed after the membership test
C8_NoFault == \A t \in Threads : calls[t].result # "KeyError"

\* a token whose invalidate_session has completed is not in the store once
\* no call is in flight
C8_NoReinsert ==
    Quiescent =>
        \A t \in Threads :
            (calls[t].op = "invalidate" /\ calls[t].pc = "done") =>
                calls[t].tok \notin DOMAIN sessions

\* C8: verify_session, extend_session and invalidate_session on one token
\* are atomic with respect to each other: under every interleaving of their
\* steps a token whose invalidate_session has completed is absent from the
\* store once all calls in flight have finished, and no call ends in a fault
\* because another call removed the entry between its check and its read or
\* delete.
C8_Atomic == C8_NoFault /\ C8_NoReinsert

\* ------------------------------------------------------- AttendanceModel

\* NULL in a timestamp or hours column
NoTime == -1
MIN_DURATION_SECONDS == 20

\* date.today(): the day number of clock value t
Day(t) == t \div (86400 * Res)

AttendanceRow(id, employee_id, d, punch_in, punch_out, hours_worked) ==
    [id |-> id, employee_id |-> employee_id, date |-> d, punch_in |-> punch_in,
     punch_out |-> punch_out, hours_worked |-> hours_worked]

\* select * where employee_id = .. and date = today; result.data[0] or None
get_today_record(Att, up, employee_id, t) ==
    IF up /\ \E r \in Att : r.employee_id = employee_id /\ r.date = Day(t)
    THEN CHOOSE r \in Att : r.employee_id = employee_id /\ r.date = Day(t)
    ELSE NoRow

\* a plausible slip: the table is created without UNIQUE(employee_id, date)
NoUniqueConstraint(Att, employee_id, d) == FALSE

\* UNIQUE(employee_id, date) of table attendance
UniqueViolation(Att, employee_id, d) ==
    \E r \in Att : r.employee_id = employee_id /\ r.date = d

\* employee_id REFERENCES users(employee_id)
ForeignKeyViolation(U, employee_id) == employee_id \notin DOMAIN U

\* insert into attendance: [ok, attendance]
attendance_insert(Att, U, up, id, employee_id, d, punch_in) ==
    IF ~up \/ UniqueViolation(Att, employee_id, d) \/ ForeignKeyViolation(U, employee_id)
    THEN [ok |-> FALSE, attendance |-> Att]
    ELSE [ok |-> TRUE,
          attendance |-> Att \cup {AttendanceRow(id, employee_id, d, punch_in, NoTime, NoTime)}]

\* update ... where id = ..: [ok, attendance]; ok = a row was updated
attendance_update(Att, up, id, punch_out, hours_worked) ==
    IF up /\ \E r \in Att : r.id = id
    THEN [ok |-> TRUE,
          attendance |-> {IF r.id = id
                          THEN [r EXCEPT !.punch_out = punch_out, !.hours_worked = hours_worked]
                          ELSE r : r \in Att}]
    ELSE [ok |-> FALSE, attendance |-> Att]

\* delete ... where id = ..
attendance_delete(Att, up, id) == IF up THEN {r \in Att : r.id # id} ELSE Att

\* round(x, 2) of x = n / d hours, in hundredths, ties to the even value
RoundHundredths(n, d) ==
    LET a == Abs(n) * 100
        q == a \div d
        r == a % d
        m == IF 2 * r < d THEN q
             ELSE IF 2 * r > d THEN q + 1
             ELSE IF q % 2 = 0 THEN q ELSE q + 1
    IN IF n < 0 THEN -m ELSE m

\* hours_worked of a duration in ticks: round(duration_seconds / 3600, 2)
HoursWorked(duration) == RoundHundredths(duration, 3600 * Res)

\* ------------------------------------------------- routes/attendance.py

AttendanceOps == {"mark", "punch_in", "punch_out"}

\* An HTTP answer: status code, the success / action / message entries of
\* the JSON body, the set of the body's keys, and the values the body
\* carries for hours_worked and (inside the discard message) for the
\* duration in whole seconds
NoOut == [code |-> 0, success |-> FALSE, action |-> None, message |-> None,
          fields |-> {}, hours_worked |-> NoTime, seconds |-> NoTime]
Out(code, success, action, message, fields) ==
    [code |-> code, success |-> success, action |-> action, message |-> message,
     fields |-> fields, hours_worked |-> NoTime, seconds |-> NoTime]

\* the key sets of the JSON bodies the three routes build
PlainKeys == {"success", "message"}
ErrorKeys == {"success", "message", "employee_id"}
NamedKeys == {"success", "message", "employee_id", "name"}
PunchKeys == {"success", "message", "employee_id", "name", "department",
              "confidence", "time"}
\* jsonify(identify_result) of a failed identification
IdentifyKeys(r) ==
    {"success", "message", "person_id"}
        \cup (IF r.message = "Face not recognized" THEN {"confidence"} ELSE {})
\* the liveness reject; punch_out leaves spoof_details out
LivenessKeys(op) ==
    PlainKeys \cup (IF op = "punch_out" THEN {} ELSE {"spoof_details"})

\* the dict record_punch_out_with_validation / record_punch_out returns,
\* as far as the routes read it
NoResult == [discarded |-> FALSE, duration_seconds |-> 0, hours_worked |-> NoTime]
Discarded(duration) ==
    [discarded |-> TRUE, duration_seconds |-> duration, hours_worked |-> NoTime]
Closed(hours) == [discarded |-> FALSE, duration_seconds |-> 0, hours_worked |-> hours]

\* f"{duration_seconds:.0f}": a duration in ticks as whole seconds, a tie
\* going to the even value
WholeSeconds(duration) ==
    LET a == Abs(duration)
        q == a \div Res
        r == a % Res
        m == IF 2 * r < Res THEN q
             ELSE IF 2 * r > Res THEN q + 1
             ELSE IF q % 2 = 0 THEN q ELSE q + 1
    IN IF duration < 0 THEN -m ELSE m

\* a request in flight: the route and model locals that later steps read
\* (read_day: the date.today() of get_today_record inside record_punch_in;
\* tried: the insert was attempted; result: attendance_result of a punch-out;
\* failed: history, a call of the request to the database has failed)
Request(op, pc, employee_id, today, at, read_day, existing, tried, result, out) ==
    [op |-> op, pc |-> pc, employee_id |-> employee_id, today |-> today, at |-> at,
     read_day |-> read_day, existing |-> existing, tried |-> tried,
     result |-> result, out |-> out, failed |-> FALSE]
IdleRequest == Request("none", "idle", None, 0, 0, 0, NoRow, FALSE, NoResult, NoOut)
Answer(q, out) == [q EXCEPT !.pc = "done", !.out = out]
InStep(t, pc) == requests[t].pc = pc
\* the request calls Database.get_client() or runs a query on the client
Calling(q) == [q EXCEPT !.failed = @ \/ ~dbUp]
AttendanceFrame ==
    UNCHANGED <<clockVars, authVars, userVars, attKnown, calls, checks, identified,
                enrolments, blink, dead>>

\* a plausible slip: the error of record_punch_in is not looked at
AnswerIgnoringError(op, ok, message) ==
    Out(200, TRUE, IF op = "mark" THEN "Punch In" ELSE None, "Punch-in recorded",
        PunchKeys \cup (IF op = "mark" THEN {"action"} ELSE {}))

\* the answer of mark_attendance / punch_in to the result of record_punch_in
PunchInAnswer(op, ok, message) ==
    IF ~ok THEN Out(400, FALSE, None, message, ErrorKeys)
    ELSE Out(200, TRUE, IF op = "mark" THEN "Punch In" ELSE None, "Punch-in recorded",
             PunchKeys \cup (IF op = "mark" THEN {"action"} ELSE {}))

\* the answer of mark_attendance to a record that has punch_out set
AlreadyCompleteAnswer ==
    Out(400, FALSE, None, "Attendance already complete", NamedKeys)

\* the answer of mark_attendance to {"discarded": True, ...}
DiscardAnswer(result) ==
    [Out(400, FALSE, None, "Attendance discarded", NamedKeys)
        EXCEPT !.seconds = WholeSeconds(result.duration_seconds)]

\* the answer of mark_attendance / punch_out to an updated record
PunchOutAnswer(op, result) ==
    [Out(200, TRUE, IF op = "mark" THEN "Punch Out" ELSE None, "Punch-out recorded",
         PunchKeys \cup {"hours_worked"} \cup (IF op = "mark" THEN {"action"} ELSE {}))
        EXCEPT !.hours_worked = result.hours_worked]

\* the head of the three routes: decode, liveness gate, identify_face with
\* include_admins = True over the registry of the attendance face service
RequestBegin(t, ops, images) ==
    \E op \in ops, image \in images, spoof \in SpoofInputs :
      \E listing \in DirListings(adminDisk) :
        LET r == identify_face(image, AllEncodings(attKnown, listing),
                               FACE_RECOGNITION_TOLERANCE)
            q == Request(op, "idle", None, 0, 0, 0, NoRow, FALSE, NoResult, NoOut)
        IN /\ InStep(t, "idle")
           /\ requests' = [requests EXCEPT ![t] =
                IF ~image.ok
                THEN Answer(q, Out(400, FALSE, None, "Could not decode image", PlainKeys))
                ELSE IF LivenessRejects(spoof)
                     THEN Answer(q, Out(400, FALSE, None, "Liveness check failed",
                                        LivenessKeys(op)))
                ELSE IF ~r.success
                     THEN Answer(q, Out(400, FALSE, None, r.message, IdentifyKeys(r)))
                ELSE [q EXCEPT !.employee_id = r.person_id,
                               !.pc = IF op = "mark" THEN "route_read"
                                      ELSE IF op = "punch_in" THEN "in_capture"
                                      ELSE "out_capture"]]
           /\ prev_frame' = IF SpoofCheckRuns(spoof) THEN 0 ELSE prev_frame
           /\ UNCHANGED <<attendance, nextRowId>>
           /\ AttendanceFrame

\* mark_attendance: existing_record = get_today_record(employee_id) and the
\* choice of the action from it
MarkRead(t) ==
    LET q == Calling(requests[t])
        existing == get_today_record(attendance, dbUp, q.employee_id, now)
    IN /\ InStep(t, "route_read")
       /\ requests' = [requests EXCEPT ![t] =
            IF existing = NoRow \/ existing.punch_in = NoTime
            THEN [q EXCEPT !.pc = "in_capture"]
            ELSE IF existing.punch_out # NoTime
                 THEN Answer(q, AlreadyCompleteAnswer)
            ELSE [q EXCEPT !.pc = "out_capture"]]
       /\ UNCHANGED <<prev_frame, attendance, nextRowId>>
       /\ AttendanceFrame

\* record_punch_in: the client check, today = date.today(), now = utcnow()
PunchInCapture(t) ==
    LET q == Calling(requests[t])
    IN /\ InStep(t, "in_capture")
       /\ requests' = [requests EXCEPT ![t] =
            IF ~dbUp THEN Answer(q, PunchInAnswer(q.op, FALSE, "Database not connected"))
            ELSE [q EXCEPT !.pc = "in_read", !.today = Day(now), !.at = now]]
       /\ UNCHANGED <<prev_frame, attendance, nextRowId>>
       /\ AttendanceFrame

\* a plausible slip: record_punch_in leaves the test to the database
NeverPunchedIn(existing) == FALSE

\* record_punch_in: existing and existing.get('punch_in')
AlreadyPunchedIn(existing) == existing # NoRow /\ existing.punch_in # NoTime

\* record_punch_in: existing = get_today_record(employee_id)
PunchInRead(t) ==
    LET q == Calling(requests[t])
        existing == get_today_record(attendance, dbUp, q.employee_id, now)
    IN /\ InStep(t, "in_read")
       /\ requests' = [requests EXCEPT ![t] =
            IF AlreadyPunchedIn(existing)
            THEN Answer(q, PunchInAnswer(q.op, FALSE, "Already punched in today"))
            ELSE [q EXCEPT !.pc = "in_insert", !.read_day = Day(now)]]
       /\ UNCHANGED <<prev_frame, attendance, nextRowId>>
       /\ AttendanceFrame

\* record_punch_in: the insert; an exception becomes {"error": str(e)}
PunchInInsert(t) ==
    LET q == Calling(requests[t])
        ins == attendance_insert(attendance, users, dbUp, nextRowId,
                                 q.employee_id, q.today, q.at)
    IN /\ InStep(t, "in_insert")
       /\ attendance' = ins.attendance
       /\ nextRowId' = nextRowId + 1
       /\ UNCHANGED prev_frame
       /\ requests' = [requests EXCEPT ![t] =
            Answer([q EXCEPT !.tried = TRUE],
                   PunchInAnswer(q.op, ins.ok, "insert failed"))]
       /\ AttendanceFrame

\* record_punch_out / record_punch_out_with_validation: the client check
\* and now = utcnow()
PunchOutCapture(t) ==
    LET q == Calling(requests[t])
    IN /\ InStep(t, "out_capture")
       /\ requests' = [requests EXCEPT ![t] =
            IF ~dbUp
            THEN Answer(q, Out(400, FALSE, None, "Database not connected", ErrorKeys))
            ELSE [q EXCEPT !.pc = "out_read", !.at = now]]
       /\ UNCHANGED <<prev_frame, attendance, nextRowId>>
       /\ AttendanceFrame

\* a plausible slip: a duration of exactly the minimum is discarded too
AtMostMinimum(duration) == duration <= MIN_DURATION_SECONDS * Res

\* record_punch_out_with_validation: duration_seconds < min_duration_seconds
TooShort(duration) == duration < MIN_DURATION_SECONDS * Res

\* record_punch_out*: existing = get_today_record(employee_id) and, in
\* record_punch_out_with_validation (mark_attendance) only, the
\* minimum-duration test
PunchOutRead(t) ==
    LET q == Calling(requests[t])
        existing == get_today_record(attendance, dbUp, q.employee_id, now)
    IN /\ InStep(t, "out_read")
       /\ requests' = [requests EXCEPT ![t] =
            IF existing = NoRow
            THEN Answer(q, Out(400, FALSE, None, "No punch-in record found for today",
                               ErrorKeys))
            ELSE IF existing.punch_out # NoTime
                 THEN Answer(q, Out(400, FALSE, None, "Already punched out today",
                                    ErrorKeys))
            ELSE IF q.op = "mark" /\ TooShort(q.at - existing.punch_in)
                 THEN [q EXCEPT !.pc = "out_delete", !.existing = existing]
            ELSE [q EXCEPT !.pc = "out_update", !.existing = existing]]
       /\ UNCHANGED <<prev_frame, attendance, nextRowId>>
       /\ AttendanceFrame

\* record_punch_out_with_validation: the delete of a too short attendance;
\* mark_attendance answers it 400 without an action, and a delete that
\* raises with the error "Failed to discard: ..."
PunchOutDelete(t) ==
    LET q == Calling(requests[t])
        result == Discarded(q.at - q.existing.punch_in)
    IN /\ InStep(t, "out_delete")
       /\ attendance' = attendance_delete(attendance, dbUp, q.existing.id)
       /\ requests' = [requests EXCEPT ![t] =
            IF dbUp
            THEN Answer([q EXCEPT !.result = result], DiscardAnswer(result))
            ELSE Answer(q, Out(400, FALSE, None, "Failed to discard", ErrorKeys))]
       /\ UNCHANGED <<prev_frame, nextRowId>>
       /\ AttendanceFrame

\* record_punch_out*: the update by id
PunchOutUpdate(t) ==
    LET q == Calling(requests[t])
        result == Closed(HoursWorked(q.at - q.existing.punch_in))
        upd == attendance_update(attendance, dbUp, q.existing.id, q.at,
                                 result.hours_worked)
    IN /\ InStep(t, "out_update")
       /\ attendance' = upd.attendance
       /\ requests' = [requests EXCEPT ![t] =
            IF upd.ok
            THEN Answer([q EXCEPT !.result = result], PunchOutAnswer(q.op, result))
            ELSE Answer(q, Out(400, FALSE, None, "Failed to update", ErrorKeys))]
       /\ UNCHANGED <<prev_frame, nextRowId>>
       /\ AttendanceFrame

\* the clock advances by a tick, by the minimum duration, or by a day
AttendanceDeltas == {1, MIN_DURATION_SECONDS * Res, 86400 * Res}

\* a running server after enrolment: P1 is the super admin and an employee,
\* P2 an employee; both face services have loaded the employees' encodings
\* in the order os.listdir gives them; the attendance table is empty or
\* holds the record of P1's punch-in at time 0
InitAttendance ==
    /\ now = 0
    /\ nTicks = 0
    /\ adminDbUp = TRUE
    /\ admins = DictPut(EmptyDict, "P1", AdminRow("super_admin", TRUE, TRUE))
    /\ adminKnown = <<[id |-> "P1", enc |-> FaceOf("P1")]>>
    /\ adminDisk = DictPut(EmptyDict, "P1", FaceOf("P1"))
    /\ sessions = EmptyDict
    /\ nextTok = 0
    /\ dbUp = TRUE
    /\ users = [id \in PersonIds |-> UserRow(TRUE)]
    /\ userDisk = [id \in PersonIds |-> FaceOf(id)]
    /\ attKnown \in DirListings(userDisk)
    /\ userKnown = attKnown
    /\ prev_frame = NoFrame
    /\ attendance \in {{}, {AttendanceRow(1, "P1", Day(0), 0, NoTime, NoTime)}}
    /\ nextRowId = Cardinality(attendance) + 1
    /\ calls = <<>>
    /\ requests = [t \in Threads |-> IdleRequest]
    /\ checks = <<>>
    /\ identified = NoReply
    /\ enrolments = <<>>
    /\ blink = NoBlink
    /\ dead = {}

NextAttendance ==
    \/ \E t \in Threads :
         \/ RequestBegin(t, AttendanceOps, ProbeImages)
         \/ MarkRead(t)
         \/ PunchInCapture(t)
         \/ PunchInRead(t)
         \/ PunchInInsert(t)
         \/ PunchOutCapture(t)
         \/ PunchOutRead(t)
         \/ PunchOutDelete(t)
         \/ PunchOutUpdate(t)
    \/ Tick(AttendanceDeltas)

SpecAttendance == InitAttendance /\ [][NextAttendance]_vars

\* ------------------------------------------------- properties: attendance

\* C9: after any sequence of mark, punch-in and punch-out requests the table
\* holds at most one record per (employee_id, date), and every record with
\* punch_out set has punch_in set.
C9_OneRecordPerDay ==
    /\ \A r1, r2 \in attendance :
         (r1.employee_id = r2.employee_id /\ r1.date = r2.date) => r1 = r2
    /\ \A r \in attendance : r.punch_out # NoTime => r.punch_in # NoTime

\* one request has closed an employee's record of the day, another request
\* of the same employee was turned away at the insert or at the read before
\* it
C9_Witness ==
    \E t, u \in Threads, r \in attendance :
        /\ r.punch_out # NoTime
        /\ requests[t].pc = "done" /\ requests[t].out.success
        /\ requests[t].existing # NoRow /\ requests[t].existing.id = r.id
        /\ requests[u].pc = "done" /\ ~requests[u].out.success
        /\ requests[u].employee_id = r.employee_id
        /\ requests[u].out.message \in {"Already punched in today", "insert failed"}

\* threads t and u have both found no record of the day and both attempted
\* the insert for the same employee and that day, and no other request has run
CreateRace(t, u) ==
    /\ t # u
    /\ requests[t].pc = "done" /\ requests[u].pc = "done"
    /\ requests[t].tried /\ requests[u].tried
    /\ requests[t].employee_id = requests[u].employee_id
    /\ requests[t].today = requests[u].today
    /\ requests[t].read_day = requests[t].today
    /\ requests[u].read_day = requests[u].today
    /\ \A w \in Threads \ {t, u} : requests[w].pc = "idle"
Won(t) == requests[t].out.success /\ requests[t].out.code = 200
Lost(t) == ~requests[t].out.success /\ requests[t].out.code = 400

\* C10: of two requests for one subject and day that both saw no record and
\* both attempted the punch-in insert, exactly one creates the record and
\* reports Punch In, the other is answered with a reject, and the stored
\* punch_in is the winner's.
C10_ConcurrentCreate ==
    \A t, u \in Threads :
        CreateRace(t, u) =>
            /\ (Won(t) /\ Lost(u)) \/ (Won(u) /\ Lost(t))
            /\ \A w \in {t, u} :
                 Won(w) =>
                   /\ requests[w].op = "mark" => requests[w].out.action = "Punch In"
                   /\ \E r \in attendance :
                        /\ r.employee_id = requests[w].employee_id
                        /\ r.date = requests[w].today
                        /\ r.punch_in = requests[w].at
                        /\ r.punch_out = NoTime
                        /\ \A r2 \in attendance :
                             (r2.employee_id = r.employee_id /\ r2.date = r.date) => r2 = r

\* two mark requests for P1 raced; the one whose clock reading is the later
\* one won the insert
C10_Witness ==
    \E t, u \in Threads :
        /\ CreateRace(t, u)
        /\ requests[t].op = "mark" /\ requests[u].op = "mark"
        /\ Won(t) /\ Lost(u)
        /\ requests[t].at > requests[u].at

\* the request of thread t has finished
Finished(t) == requests[t].pc = "done"

\* the mark requests of threads t and u have both read the same OPEN record
\* inside record_punch_out_with_validation and both gone on to the update
CloseRace(t, u) ==
    /\ t # u
    /\ Finished(t) /\ Finished(u)
    /\ requests[t].existing # NoRow
    /\ requests[t].existing = requests[u].existing
    /\ \A w \in {t, u} :
         /\ requests[w].op = "mark"
         /\ requests[w].out.message \in {"Punch-out recorded", "Failed to update"}

\* C11: of two identification requests for one subject and day that both
\* observed the same OPEN record, exactly one closes it and reports Punch
\* Out; the other is answered with a reject and does not overwrite the
\* stored punch_out.
C11_ConcurrentClose ==
    \A t, u \in DOMAIN requests :
        CloseRace(t, u) =>
            /\ (Won(t) /\ Lost(u)) \/ (Won(u) /\ Lost(t))
            /\ \A w \in {t, u} :
                 Won(w) => \E r \in attendance :
                             /\ r.id = requests[w].existing.id
                             /\ r.punch_out = requests[w].at

\* the transition of an OPEN record by mark_attendance, for elapsed ticks
\* between the clock reading `at` and the record's punch_in: q is the
\* request before the delete or update, q2 after it, Att2 the table after it
OpenTransition(q, q2, Att2) ==
    LET elapsed == q.at - q.existing.punch_in
    IN IF elapsed < MIN_DURATION_SECONDS * Res
       THEN /\ ~\E r \in Att2 : r.employee_id = q.employee_id /\ r.date = q.existing.date
            /\ q2.result.discarded
            /\ q2.result.duration_seconds = elapsed
            /\ ~q2.out.success
            /\ q2.out.message = "Attendance discarded"
            /\ 2 * Abs(q2.out.seconds * Res - elapsed) <= Res
       ELSE /\ \E r \in Att2 :
                 /\ r.id = q.existing.id
                 /\ r.employee_id = q.employee_id /\ r.date = q.existing.date
                 /\ r.punch_in = q.existing.punch_in
                 /\ r.punch_out = q.at
                 /\ 2 * Abs(r.hours_worked * 3600 * Res - 100 * elapsed) <= 3600 * Res
                 /\ q2.out.hours_worked = r.hours_worked
            /\ ~q2.result.discarded
            /\ q2.out.success /\ q2.out.code = 200
            /\ q2.out.action = "Punch Out"

\* C12: mark_attendance on an OPEN record, with elapsed = now - punch_in:
\* below 20 s the record is deleted (no row remains for the subject and
\* date) and the outcome is a discard carrying the measured seconds;
\* otherwise, 20 s exactly included, punch_out becomes now, hours_worked
\* becomes round(elapsed / 3600, 2) and the outcome is Punch Out.  5 s
\* discards with 5 seconds, 3600 s closes with 1.0 hours.
C12_OpenTransition ==
    /\ [](/\ TooShort(5 * Res) /\ WholeSeconds(5 * Res) = 5
          /\ ~TooShort(MIN_DURATION_SECONDS * Res)
          /\ ~TooShort(3600 * Res) /\ HoursWorked(3600 * Res) = 100)
    /\ [][\A t \in DOMAIN requests :
            (/\ requests[t].op = "mark"
             /\ requests[t].pc \in {"out_delete", "out_update"}
             /\ requests'[t].pc = "done"
             /\ requests[t].existing \in attendance)
            => OpenTransition(requests[t], requests'[t], attendance')]_vars

\* a mark request has closed a record after 20 s exactly, with the smallest
\* hours_worked that is not zero
C12_Witness ==
    \E t \in DOMAIN requests :
        /\ Finished(t) /\ requests[t].op = "mark"
        /\ requests[t].out.action = "Punch Out"
        /\ requests[t].at - requests[t].existing.punch_in = MIN_DURATION_SECONDS * Res
        /\ requests[t].out.hours_worked = 1

\* C13: every record with punch_out set has punch_out - punch_in >= 20 s,
\* whichever endpoint closed it.
C13_NoShortRecord ==
    \A r \in attendance :
        r.punch_out # NoTime => r.punch_out - r.punch_in >= MIN_DURATION_SECONDS * Res

\* C15: after an OPEN record has been discarded, no later identification of
\* the same subject on the same date leaves an OPEN or CLOSED record for
\* that date.
C15_DiscardedIsTerminal ==
    \A t \in DOMAIN requests :
        (Finished(t) /\ requests[t].result.discarded) =>
            ~\E r \in attendance :
                /\ r.employee_id = requests[t].employee_id
                /\ r.date = requests[t].existing.date

\* C16: Punch In and Punch Out answers carry their action, and a discard is
\* an outcome of its own: it carries action 'Discarded' and its body differs
\* in shape from that of an ordinary failure such as already-complete.
C16_ThreeOutcomes ==
    \A t \in DOMAIN requests :
        (Finished(t) /\ requests[t].op = "mark") =>
            /\ requests[t].out.success =>
                 /\ requests[t].out.action \in {"Punch In", "Punch Out"}
                 /\ "action" \in requests[t].out.fields
            /\ requests[t].result.discarded =>
                 /\ requests[t].out.action = "Discarded"
                 /\ "action" \in requests[t].out.fields
                 /\ requests[t].out.fields # AlreadyCompleteAnswer.fields

\* ------------------------------------- marking by three concurrent requests

\* how many mark requests for one employee are in flight together
NumMarkers == 3
Markers == 1..NumMarkers

\* the clock advances by a tick or by the minimum duration (the day does
\* not change)
MarkDeltas == {1, MIN_DURATION_SECONDS * Res}

\* the server of InitAttendance with P1's record of the day open
InitMarks ==
    /\ now = 0
    /\ nTicks = 0
    /\ adminDbUp = TRUE
    /\ admins = DictPut(EmptyDict, "P1", AdminRow("super_admin", TRUE, TRUE))
    /\ adminKnown = <<[id |-> "P1", enc |-> FaceOf("P1")]>>
    /\ adminDisk = DictPut(EmptyDict, "P1", FaceOf("P1"))
    /\ sessions = EmptyDict
    /\ nextTok = 0
    /\ dbUp = TRUE
    /\ users = [id \in PersonIds |-> UserRow(TRUE)]
    /\ userDisk = [id \in PersonIds |-> FaceOf(id)]
    /\ attKnown \in DirListings(userDisk)
    /\ userKnown = attKnown
    /\ prev_frame = NoFrame
    /\ attendance = {AttendanceRow(1, "P1", Day(0), 0, NoTime, NoTime)}
    /\ nextRowId = 2
    /\ calls = <<>>
    /\ requests = [t \in Markers |-> IdleRequest]
    /\ checks = <<>>
    /\ identified = NoReply
    /\ enrolments = <<>>
    /\ blink = NoBlink
    /\ dead = {}

\* POST /api/attendance/mark with the face of P1, from any thread
NextMarks ==
    \/ \E t \in Markers :
         \/ RequestBegin(t, {"mark"}, {Face(FaceOf("P1"))})
         \/ MarkRead(t)
         \/ PunchInCapture(t)
         \/ PunchInRead(t)
         \/ PunchInInsert(t)
         \/ PunchOutCapture(t)
         \/ PunchOutRead(t)
         \/ PunchOutDelete(t)
         \/ PunchOutUpdate(t)
    \/ Tick(MarkDeltas)

SpecMarks == InitMarks /\ [][NextMarks]_vars

\* the record of the day of the subject of request t, when it has punch_out
\* set
ClosedRecords(t) ==
    {r \in attendance : /\ r.employee_id = requests[t].employee_id
                        /\ r.date = Day(now)
                        /\ r.punch_out # NoTime}

\* thread t has identified its subject and not yet read the table, and the
\* subject's record of the day has punch_out set
IdentifiedWhileClosed(t) ==
    /\ requests[t].pc = "route_read"
    /\ ClosedRecords(t) # {}

\* C14: a successful identification of a subject whose record for today
\* has punch_out set is rejected as already complete and the record is left
\* unchanged, however many requests there are: while such a request is
\* pending the record stays as it is, and the request's next step is the
\* reject.
C14_ClosedIsAbsorbing ==
    [][\A t \in DOMAIN requests :
         IdentifiedWhileClosed(t) =>
            /\ ClosedRecords(t) \subseteq attendance'
            /\ \/ requests'[t] = requests[t]
               \/ requests'[t] = Answer(requests[t], AlreadyCompleteAnswer)]_vars

\* ---------------------------------------------------- AntiSpoofingService

SPOOF_FRAME_COUNT == 5
motion_threshold == 1000

\* A frame as the service sees it: gray = the blurred gray image, an image
\* of which the first `gray` pixels are white (two frames differ in as many
\* pixels as their gray values differ); real = the verdict of
\* analyze_texture on the frame
Frame(gray, real) == [gray |-> gray, real |-> real]

\* n frames, frame i showing gray value base + (i - 1) * step, with texture
\* verdict `last` on the last frame and `others` on the others
FrameList(n, base, step, others, last) ==
    [i \in 1..n |-> Frame(base + (i - 1) * step, IF i = n THEN last ELSE others)]

\* the frame lists of a call: too few, fewer than the configured count,
\* more than it; a still scene, a still scene 1000 pixels apart from it, a
\* moving scene; a live face, a photo, a photo whose last frame passes the
\* texture test
FrameLengths == {2, 4, 6}
FrameLists ==
    {FrameList(n, scene[1], scene[2], texture[1], texture[2]) :
        n \in FrameLengths,
        scene \in {<<0, 0>>, <<1000, 0>>, <<0, 3000>>},
        texture \in {<<TRUE, TRUE>>, <<FALSE, FALSE>>, <<FALSE, TRUE>>}}

\* analyze_texture(image)["is_real"]
analyze_texture(frame) == frame.real

\* np.sum(thresh > 0) of cv2.absdiff(self.prev_frame, gray)
motion_pixels(prev, gray) == Abs(prev - gray)

\* min_frames = min(self.frame_count, 3)
min_frames == IF SPOOF_FRAME_COUNT < 3 THEN SPOOF_FRAME_COUNT ELSE 3

\* frames[-self.frame_count:] if len(frames) > self.frame_count else frames
frames_to_check(frames) ==
    IF Len(frames) > SPOOF_FRAME_COUNT
    THEN SubSeq(frames, Len(frames) - SPOOF_FRAME_COUNT + 1, Len(frames))
    ELSE frames

\* a plausible slip: both signals are required
FuseAnd(texture_real, has_motion) == texture_real /\ has_motion

\* results["overall_is_real"] = texture_real or has_motion
Fuse(texture_real, has_motion) == texture_real \/ has_motion

\* results["confidence"], in hundredths
FuseConfidence(texture_real, has_motion) ==
    (IF texture_real THEN 60 ELSE 0) + (IF has_motion THEN 40 ELSE 0)

\* what a call returns: analysed = texture and motion analysis ran; fault =
\* the call raised instead of returning
NoVerdict == [overall_is_real |-> FALSE, confidence |-> 0, motion_count |-> 0,
              texture_real |-> FALSE, analysed |-> FALSE, fault |-> FALSE]
TooFewFrames == [NoVerdict EXCEPT !.overall_is_real = TRUE]
Verdict(texture_real, motion_count) ==
    [overall_is_real |-> Fuse(texture_real, motion_count >= 1),
     confidence |-> FuseConfidence(texture_real, motion_count >= 1),
     motion_count |-> motion_count, texture_real |-> texture_real,
     analysed |-> TRUE, fault |-> FALSE]
Raised == [NoVerdict EXCEPT !.analysed = TRUE, !.fault = TRUE]

\* a call of comprehensive_spoof_check in flight: its argument and locals
\* (i: the loop index, 1-based; pixels: motion_pixels inside detect_motion)
Check(pc, frames, to_check, i, texture_real, motion_count, pixels, result) ==
    [pc |-> pc, frames |-> frames, to_check |-> to_check, i |-> i,
     texture_real |-> texture_real, motion_count |-> motion_count,
     pixels |-> pixels, result |-> result]
IdleCheck == Check("idle", <<>>, <<>>, 1, FALSE, 0, 0, NoVerdict)
InCheck(t, pc) == checks[t].pc = pc
LivenessFrame ==
    UNCHANGED <<clockVars, authVars, userVars, attKnown, attendance, nextRowId,
                calls, requests, identified, enrolments, blink, dead>>

\* for i in range(0, len(frames_to_check), 2): the next round or the end
LoopNext(c) ==
    IF c.i + 2 <= Len(c.to_check)
    THEN [c EXCEPT !.pc = "motion_test", !.i = c.i + 2]
    ELSE [c EXCEPT !.pc = "fuse"]

\* comprehensive_spoof_check: the call and the too-few-frames test
CheckBegin(t) ==
    \E frames \in FrameLists :
        /\ InCheck(t, "idle")
        /\ checks' = [checks EXCEPT ![t] =
             IF Len(frames) < min_frames
             THEN [IdleCheck EXCEPT !.pc = "done", !.frames = frames,
                                    !.result = TooFewFrames]
             ELSE [IdleCheck EXCEPT !.pc = "texture", !.frames = frames,
                                    !.to_check = frames_to_check(frames)]]
        /\ UNCHANGED prev_frame
        /\ LivenessFrame

\* texture check on the last frame only
CheckTexture(t) ==
    LET c == checks[t]
    IN /\ InCheck(t, "texture")
       /\ checks' = [checks EXCEPT ![t] =
            [c EXCEPT !.pc = "reset",
                      !.texture_real = analyze_texture(c.to_check[Len(c.to_check)])]]
       /\ UNCHANGED prev_frame
       /\ LivenessFrame

\* self.reset_motion_detector(); motion_count = 0
CheckReset(t) ==
    LET c == checks[t]
    IN /\ InCheck(t, "reset")
       /\ prev_frame' = NoFrame
       /\ checks' = [checks EXCEPT ![t] =
            [c EXCEPT !.pc = "motion_test", !.i = 1, !.motion_count = 0]]
       /\ LivenessFrame

\* detect_motion: if self.prev_frame is None, the frame is stored and no
\* motion is reported
MotionTest(t) ==
    LET c == checks[t]
    IN /\ InCheck(t, "motion_test")
       /\ IF prev_frame = NoFrame
          THEN /\ prev_frame' = c.to_check[c.i].gray
               /\ checks' = [checks EXCEPT ![t] = LoopNext(c)]
          ELSE /\ UNCHANGED prev_frame
               /\ checks' = [checks EXCEPT ![t] = [c EXCEPT !.pc = "motion_diff"]]
       /\ LivenessFrame

\* detect_motion: cv2.absdiff(self.prev_frame, gray) and the pixel count;
\* with prev_frame None the call raises
MotionDiff(t) ==
    LET c == checks[t]
    IN /\ InCheck(t, "motion_diff")
       /\ checks' = [checks EXCEPT ![t] =
            IF prev_frame = NoFrame
            THEN [c EXCEPT !.pc = "done", !.result = Raised]
            ELSE [c EXCEPT !.pc = "motion_store",
                           !.pixels = motion_pixels(prev_frame, c.to_check[c.i].gray)]]
       /\ UNCHANGED prev_frame
       /\ LivenessFrame

\* detect_motion: self.prev_frame = gray and the verdict on the pixel
\* count; the loop counts it
MotionStore(t) ==
    LET c == checks[t]
        counted == [c EXCEPT !.motion_count =
                      IF c.pixels > motion_threshold THEN c.motion_count + 1
                      ELSE c.motion_count]
    IN /\ InCheck(t, "motion_store")
       /\ prev_frame' = c.to_check[c.i].gray
       /\ checks' = [checks EXCEPT ![t] = LoopNext(counted)]
       /\ LivenessFrame

\* has_motion, the final decision and the confidence
CheckFuse(t) ==
    LET c == checks[t]
    IN /\ InCheck(t, "fuse")
       /\ checks' = [checks EXCEPT ![t] =
            [c EXCEPT !.pc = "done", !.result = Verdict(c.texture_real, c.motion_count)]]
       /\ UNCHANGED prev_frame
       /\ LivenessFrame

\* a frame an earlier attempt may have left in prev_frame
LeftOver == 9000

\* a running server: the detector of the attendance routes is fresh or
\* holds the last frame of an earlier attempt; no call is in flight
InitLiveness ==
    /\ now = 0
    /\ nTicks = 0
    /\ adminDbUp = TRUE
    /\ admins = DictPut(EmptyDict, "P1", AdminRow("super_admin", TRUE, TRUE))
    /\ adminKnown = <<[id |-> "P1", enc |-> FaceOf("P1")]>>
    /\ adminDisk = DictPut(EmptyDict, "P1", FaceOf("P1"))
    /\ sessions = EmptyDict
    /\ nextTok = 0
    /\ dbUp = TRUE
    /\ users = [id \in PersonIds |-> UserRow(TRUE)]
    /\ userDisk = [id \in PersonIds |-> FaceOf(id)]
    /\ attKnown \in DirListings(userDisk)
    /\ userKnown = attKnown
    /\ prev_frame \in {NoFrame, LeftOver}
    /\ attendance = {}
    /\ nextRowId = 1
    /\ calls = <<>>
    /\ requests = <<>>
    /\ checks = [t \in Threads |-> IdleCheck]
    /\ identified = NoReply
    /\ enrolments = <<>>
    /\ blink = NoBlink
    /\ dead = {}

NextLiveness ==
    \E t \in Threads :
        \/ CheckBegin(t)
        \/ CheckTexture(t)
        \/ CheckReset(t)
        \/ MotionTest(t)
        \/ MotionDiff(t)
        \/ MotionStore(t)
        \/ CheckFuse(t)

SpecLiveness == InitLiveness /\ [][NextLiveness]_vars

\* --------------------------------------------------- properties: liveness

\* the call of thread t has returned a verdict from the analysis
Analysed(t) ==
    /\ checks[t].pc = "done"
    /\ checks[t].result.analysed
    /\ ~checks[t].result.fault

\* C17: with enough frames, overall_is_real = texture_real OR
\* (motion_count >= 1) and confidence = 0.6 * [texture_real] + 0.4 *
\* [motion_count >= 1]; texture is that of the last checked frame only.
C17_Fusion ==
    \A t \in DOMAIN checks :
        Analysed(t) =>
            LET r == checks[t].result
                f == checks[t].frames
            IN /\ r.texture_real = f[Len(f)].real
               /\ r.overall_is_real = (r.texture_real \/ r.motion_count >= 1)
               /\ r.confidence = (IF r.texture_real THEN 60 ELSE 0)
                                   + (IF r.motion_count >= 1 THEN 40 ELSE 0)
               /\ (~r.texture_real /\ r.motion_count = 0)
                    => (~r.overall_is_real /\ r.confidence = 0)
               /\ (r.texture_real /\ r.motion_count = 0) => r.overall_is_real

\* one call has rejected a still photo with confidence 0; another has passed
\* a still scene whose last frame alone passes the texture test
C17_Witness ==
    \E t, u \in DOMAIN checks :
        /\ Analysed(t) /\ Analysed(u)
        /\ ~checks[t].result.texture_real /\ checks[t].result.motion_count = 0
        /\ ~checks[t].result.overall_is_real
        /\ checks[u].result.texture_real /\ checks[u].result.motion_count = 0
        /\ ~checks[u].frames[1].real
        /\ checks[u].result.overall_is_real /\ checks[u].result.confidence = 60

RECURSIVE MotionCountAlone(_, _)
MotionCountAlone(f, i) ==
    IF i > Len(f) THEN 0
    ELSE (IF i > 1 /\ Abs(f[i].gray - f[i - 2].gray) > motion_threshold THEN 1 ELSE 0)
         + MotionCountAlone(f, i + 2)

\* C19: under any interleaving of two comprehensive_spoof_check executions
\* each attempt's motion_count is the one it would have alone on its own
\* frames, and no attempt fails on the other's reset.
C19_MotionIsolated ==
    \A t \in DOMAIN checks :
        (checks[t].pc = "done" /\ checks[t].result.analysed) =>
            /\ ~checks[t].result.fault
            /\ checks[t].result.motion_count = MotionCountAlone(checks[t].to_check, 1)

\* ------------------------------------------------ properties: identify_face

\* probe embeddings around both tolerances, between the two enrolled faces
\* and off the grid of 0.0001
DecisionProbes == {0, 12346, 30000, 45000, 45001, 50000, 50001, 60000, 105000, 105001}
Tolerances == {ADMIN_RECOGNITION_TOLERANCE, FACE_RECOGNITION_TOLERANCE}

\* the registries of the two face services
Registries == {adminKnown, userKnown}

\* the smallest distance of probe e to an entry of registry reg
MinDistance(reg, e) ==
    CHOOSE d \in {Abs(reg[i].enc - e) : i \in DOMAIN reg} :
        \A i \in DOMAIN reg : d <= Abs(reg[i].enc - e)

\* the decision of identify_face on registry reg, probe e and tolerance
\* tol, with the confidence left to conf(result, distance)
Decision(reg, e, tol, conf(_, _)) ==
    LET r == identify_face(Face(e), reg, tol)
        d == MinDistance(reg, e)
    IN /\ r.success = (d <= tol)
       /\ r.success => \E i \in DOMAIN reg :
                         reg[i].id = r.person_id /\ Abs(reg[i].enc - e) = d
       /\ ~r.success => r.person_id = None
       /\ conf(r, d)

ExactConfidence(r, d) == r.confidence = 100000 - d
RoundedConfidence(r, d) ==
    /\ r.confidence % 10 = 0
    /\ 2 * Abs(r.confidence - (100000 - d)) <= 10

\* C20 as stated: identify_face on a non-empty registry selects an entry of
\* minimum distance, accepts iff that distance <= tolerance (equal accepts,
\* larger rejects), returns that entry's id with confidence = 1 - distance
\* on acceptance and person_id = None on rejection.
C20_DecisionExact ==
    \A reg \in Registries, e \in DecisionProbes, tol \in Tolerances :
        reg # <<>> => Decision(reg, e, tol, ExactConfidence)

\* C20: the same decision, with the confidence that is returned: 1 -
\* distance rounded to four decimals.
C20_DecisionRounded ==
    \A reg \in Registries, e \in DecisionProbes, tol \in Tolerances :
        reg # <<>> => Decision(reg, e, tol, RoundedConfidence)

\* two admins are enrolled; a probe at exactly the tolerance from the
\* nearer one is accepted as that one, a probe 0.00001 further is rejected,
\* and a probe off the grid gets a rounded confidence
C20_Witness ==
    /\ Len(adminKnown) = 2
    /\ LET at == identify_face(Face(105000), adminKnown, ADMIN_RECOGNITION_TOLERANCE)
           past == identify_face(Face(105001), adminKnown, ADMIN_RECOGNITION_TOLERANCE)
           off == identify_face(Face(12346), adminKnown, ADMIN_RECOGNITION_TOLERANCE)
       IN /\ at.success /\ at.person_id = "P2" /\ at.confidence = 55000
          /\ ~past.success /\ past.person_id = None
          /\ off.success /\ off.person_id = "P1" /\ off.confidence = 87650

\* ------------------------------- FaceRecognitionService as a pure matcher

\* the longest list of samples handed to register_face
MaxSamples == 3

\* a region is detected and face_encodings returns nothing for it
NoEncodingImg == Img(TRUE, 1, NoEnc, TRUE)

\* the decoded images register_face may be given
SampleImages == {NoFaceImg, TwoFacesImg, NoEncodingImg} \cup {Face(e) : e \in EmbVals}
SampleLists == UNION {[1..n -> SampleImages] : n \in 1..MaxSamples}

\* the images of an identification request: the probes of ProbeImages, a
\* face without encoding, and faces between and beyond the enrolled ones
MatcherProbes ==
    ProbeImages \cup {NoEncodingImg} \cup {Face(e) : e \in {20000, 30000, 40000, 110001}}

MatcherFrame ==
    UNCHANGED <<clockVars, authVars, dbUp, users, attVars, calls, requests, checks,
                enrolments, blink, dead>>

\* The scenario: enrolments and revocations in any order, then
\* identification requests.  identify_face writes nothing the registry
\* operations read, so every registry is still identified against.
BeforeIdentification == ~identified.asked

\* face_service.register_face(person_id, images) of routes/users.py
RegisterFace(person_id, images) ==
    LET r == register_face(userKnown, userDisk, person_id, images)
    IN /\ BeforeIdentification
       /\ userKnown' = r.known
       /\ userDisk' = r.disk
       /\ UNCHANGED identified
       /\ MatcherFrame

\* face_service.delete_face(person_id) of routes/users.py
DeleteFace(person_id) ==
    LET r == delete_face(userKnown, userDisk, person_id)
    IN /\ BeforeIdentification
       /\ userKnown' = r.known
       /\ userDisk' = r.disk
       /\ UNCHANGED identified
       /\ MatcherFrame

\* POST /api/users/identify
IdentifyUser ==
    \E image \in MatcherProbes, listing \in DirListings(adminDisk) :
        /\ identified' = Reply(image, identify_user(image, userKnown, listing))
        /\ UNCHANGED <<userKnown, userDisk>>
        /\ MatcherFrame

\* a face service that has loaded the encodings of both employees in the
\* order os.listdir gave them; the admin directory holds no, one or two files
InitMatcher ==
    /\ now = 0
    /\ nTicks = 0
    /\ adminDbUp = TRUE
    /\ admins = EmptyDict
    /\ adminKnown = <<>>
    /\ adminDisk \in {EmptyDict,
                      DictPut(EmptyDict, "P2", FaceOf("P2")),
                      [id \in PersonIds |-> FaceOf(id)]}
    /\ sessions = EmptyDict
    /\ nextTok = 0
    /\ dbUp = TRUE
    /\ users = [id \in PersonIds |-> UserRow(TRUE)]
    /\ userDisk \in [PersonIds -> EmbVals]
    /\ userKnown \in DirListings(userDisk)
    /\ attKnown = userKnown
    /\ prev_frame = NoFrame
    /\ attendance = {}
    /\ nextRowId = 1
    /\ calls = <<>>
    /\ requests = <<>>
    /\ checks = <<>>
    /\ identified = NoReply
    /\ enrolments = <<>>
    /\ blink = NoBlink
    /\ dead = {}

NextMatcher ==
    \/ \E person_id \in PersonIds, images \in SampleLists : RegisterFace(person_id, images)
    \/ \E person_id \in PersonIds : DeleteFace(person_id)
    \/ IdentifyUser

SpecMatcher == InitMatcher /\ [][NextMatcher]_vars

\* ------------------------------------------- properties: identity matcher

\* C21: whenever register_face(id, samples) succeeds and stores the centroid
\* V, the mean of the valid samples, an identification with a probe whose
\* embedding is exactly V answers success with person_id = id and
\* confidence 1.0, whatever the registries held before.
C21_RoundTrip ==
    [][\A person_id \in PersonIds, images \in SampleLists :
         (/\ RegisterFace(person_id, images)
          /\ register_face(userKnown, userDisk, person_id, images).success)
         => \A listing \in DirListings(adminDisk) :
              LET V == MeanEncoding(ValidEncodings(images))
                  r == identify_user(Face(V), userKnown', listing)
              IN r.success /\ r.person_id = person_id /\ r.confidence = 100000]_vars

\* the orders in which a registry of the same contents can have been built
Orders(reg) == DirListings([id \in RegIds(reg) |-> RegEnc(reg, id)])

\* C22: the id identify_face returns depends on the contents of the searched
\* registries and on the probe only: registries of the same id -> centroid
\* pairs built in another enrolment order, or listed by the file system in
\* another order, give the same id, also when two identities are at the
\* same minimum distance.
C22_OrderIndependent ==
    \A image \in MatcherProbes :
      \A K1, K2 \in Orders(userKnown), L1, L2 \in DirListings(adminDisk) :
        identify_user(image, K1, L1).person_id = identify_user(image, K2, L2).person_id

\* the samples of a list in which exactly one face is detected and an
\* embedding is produced, and the sum of their embeddings
ValidSamples(images) ==
    {i \in DOMAIN images : images[i].faces = 1 /\ images[i].enc # NoEnc}
RECURSIVE SumOfSamples(_, _)
SumOfSamples(images, S) ==
    IF S = {} THEN 0
    ELSE LET i == CHOOSE i \in S : TRUE
         IN images[i].enc + SumOfSamples(images, S \ {i})

\* every id other than person_id has the entry in reg2 / disk2 it had before
OthersKept(person_id, reg, disk, reg2, disk2) ==
    /\ RegDel(reg2, person_id) = RegDel(reg, person_id)
    /\ DictDel(disk2, person_id) = DictDel(disk, person_id)

\* C23: register_face(id, images) fails and leaves the registry, in memory
\* and on disk, unchanged when no sample is valid; otherwise it succeeds,
\* images_used is the number of valid samples, the one entry of id becomes
\* the component-wise mean of exactly the valid samples' embeddings in
\* memory and on disk, and every other id keeps its entry.
C23_RegisterFace ==
    \A person_id \in PersonIds, images \in SampleLists :
        LET r == register_face(userKnown, userDisk, person_id, images)
            valid == ValidSamples(images)
            n == Cardinality(valid)
        IN IF valid = {}
           THEN ~r.success /\ r.known = userKnown /\ r.disk = userDisk
           ELSE /\ r.success /\ r.images_used = n
                /\ Len(SelectSeq(r.known, LAMBDA e : e.id = person_id)) = 1
                /\ n * RegEnc(r.known, person_id) = SumOfSamples(images, valid)
                /\ person_id \in DOMAIN r.disk
                /\ n * r.disk[person_id] = SumOfSamples(images, valid)
                /\ OthersKept(person_id, userKnown, userDisk, r.known, r.disk)

\* P1 has been enrolled again from two samples of one face and one of the
\* other, replacing the entry it was loaded with; P2 keeps its entry
C23_Witness ==
    /\ RegIds(userKnown) = PersonIds
    /\ RegEnc(userKnown, "P1") = 20000 /\ userDisk["P1"] = 20000
    /\ RegEnc(userKnown, "P2") = 60000 /\ userDisk["P2"] = 60000

\* ------------------------------------------------- failing databases

\* the main database (users, attendance) stops answering, or answers again
DatabaseFlips ==
    /\ dbUp' = ~dbUp
    /\ UNCHANGED <<clockVars, authVars, users, userKnown, userDisk, attVars, reqVars, dead>>

\* the admin database stops answering, or answers again
AdminDatabaseFlips ==
    /\ adminDbUp' = ~adminDbUp
    /\ UNCHANGED <<clockVars, admins, adminKnown, adminDisk, sessions, nextTok,
                   userVars, attVars, reqVars, dead>>

\* One attendance request at a time and admin authentication on the running
\* server of InitAttendance, while the main database comes and goes
NextStorage ==
    \/ \E t \in {1} :
         \/ RequestBegin(t, AttendanceOps, ProbeImages)
         \/ MarkRead(t)
         \/ PunchInCapture(t)
         \/ PunchInRead(t)
         \/ PunchInInsert(t)
         \/ PunchOutCapture(t)
         \/ PunchOutRead(t)
         \/ PunchOutDelete(t)
         \/ PunchOutUpdate(t)
    \/ AuthenticateAdmin
    \/ DatabaseFlips
    \/ Tick(MarkDeltas)

SpecStorage == InitAttendance /\ [][NextStorage]_vars

\* The enrolment routes on a fresh deployment while both databases come
\* and go
NextOutage ==
    \/ RegisterAdmin
    \/ AuthenticateAdmin
    \/ RegisterUser({"P2"})
    \/ DatabaseFlips
    \/ AdminDatabaseFlips

SpecOutage == Init /\ [][NextOutage]_vars

\* ------------------------------------- properties: enrolment and storage

\* the registry reg holds the centroid enc under id
Holds(reg, id, enc) == id \in RegIds(reg) /\ RegEnc(reg, id) = enc

\* C24: in every state, hence after every enrolment and revocation that has
\* returned, the registry searched on each identification path holds the
\* centroid of every enrolled id (the encoding files record the successful
\* enrolments not yet revoked) and holds no id that is not enrolled: the
\* attendance routes and /api/users/identify search their face service's
\* registry merged with the admin directory, admin authentication that of
\* the admin service.
C24_EnrollRevokeVisible ==
    \A listing \in DirListings(adminDisk) :
        LET att == AllEncodings(attKnown, listing)
            usr == AllEncodings(userKnown, listing)
            adm == AllEncodings(AdminServiceKnown, listing)
        IN /\ \A id \in DOMAIN userDisk :
                Holds(att, id, userDisk[id]) /\ Holds(usr, id, userDisk[id])
           /\ \A id \in DOMAIN adminDisk :
                /\ Holds(att, id, adminDisk[id])
                /\ Holds(usr, id, adminDisk[id])
                /\ Holds(adm, id, adminDisk[id])
           /\ RegIds(att) \cup RegIds(usr) \subseteq DOMAIN userDisk \cup DOMAIN adminDisk
           /\ RegIds(adm) \subseteq DOMAIN adminDisk

\* C25: enrolment is all or nothing.  No face encoding, in memory or on
\* disk, exists without the record of its actor in the database; an admin
\* enrolment that reports success has created or updated the admin's record,
\* and one that reports failure has left the table, the in-memory registry
\* and the encoding files as they were.
C25_AllOrNothing ==
    /\ \A id \in RegIds(adminKnown) \cup DOMAIN adminDisk : id \in DOMAIN admins
    /\ \A id \in RegIds(userKnown) \cup DOMAIN userDisk : id \in DOMAIN users
    /\ \A admin_id \in PersonIds, role_req \in Roles, tok \in TokenInputs :
         \A images \in EnrollSamples(admin_id) :
           LET r == route_register_admin(admin_id, role_req, tok, images)
           IN IF r.code = 200
              THEN admin_id \in DOMAIN r.admins /\ r.admins[admin_id].is_registered
              ELSE RegistryUntouched(r)

\* C26: delete_face(id) leaves neither an in-memory entry nor an encoding
\* file of id, whether or not id was enrolled; every other id keeps its entry
\* in its place; and a second delete_face(id) changes nothing more.
C26_DeleteFace ==
    \A person_id \in PersonIds :
        LET r == delete_face(userKnown, userDisk, person_id)
        IN /\ person_id \notin RegIds(r.known)
           /\ person_id \notin DOMAIN r.disk
           /\ \A other \in PersonIds \ {person_id} :
                /\ other \in RegIds(r.known) <=> other \in RegIds(userKnown)
                /\ other \in RegIds(userKnown) => RegEnc(r.known, other) = RegEnc(userKnown, other)
                /\ other \in DOMAIN r.disk <=> other \in DOMAIN userDisk
                /\ other \in DOMAIN userDisk => r.disk[other] = userDisk[other]
           /\ Len(r.known) = Cardinality(RegIds(userKnown) \ {person_id})
           /\ delete_face(r.known, r.disk, person_id) = r

\* P1 has been revoked from a registry that held both employees, and P2 is
\* still enrolled
C26_Witness ==
    /\ RegIds(userKnown) = {"P2"}
    /\ DOMAIN userDisk = {"P2"}

\* the answers that report an attendance outcome: Punch In, Punch Out (a
\* success) or a discard
ReportsOutcome(out) == out.success \/ out.message = "Attendance discarded"

\* C27: from the step of an attendance request at which a call to the
\* database fails (the client is missing, or the read, insert, update or
\* delete does not succeed), the request changes no attendance record, and
\* it ends with an operation failure, never Punch In, Punch Out or a discard.
C27_StorageFailure ==
    [][\A t \in DOMAIN requests :
         (requests'[t] # requests[t] /\ requests'[t].failed)
         => /\ attendance' = attendance
            /\ Finished(t)' => ~ReportsOutcome(requests'[t].out)]_vars


\* C28: while the admin database cannot be reached, no request of
\* POST /api/admin/register is answered with success: a lookup of "is any
\* admin registered" that fails is not taken for an empty table, so no
\* enrolment is granted without the session of a super admin, and none
\* reports success without the admin's record having been written.
C28_AdminStorageFailure ==
    ~adminDbUp =>
      \A admin_id \in PersonIds, role_req \in Roles, tok \in TokenInputs :
        \A images \in EnrollSamples(admin_id) :
          LET r == route_register_admin(admin_id, role_req, tok, images)
          IN /\ r.code # 200
             /\ RegistryUntouched(r)


\* ------------------------------------- properties: rejection and branching

\* the inputs the head of a route rejects: the image does not decode, the
\* liveness check says fake, no face or several faces are found, or every
\* entry of the searched registry is farther away than the tolerance
RejectedInput(image, spoof, all, tol) ==
    \/ ~image.ok
    \/ SPOOF_DETECTION_ENABLED /\ spoof = "fake"
    \/ image.faces = 0
    \/ image.faces > 1
    \/ \A i \in DOMAIN all : face_distance(all[i].enc, image.enc) > tol

\* the stores a rejected request must not touch
RecordsAndRegistries ==
    <<attendance, nextRowId, attKnown, userKnown, userDisk, adminKnown, adminDisk, sessions>>

\* C29: a request rejected at decoding, at the liveness check or at
\* identification changes nothing: an authentication request with such an
\* input creates no session and is not answered with success, and an
\* attendance request that is answered at the head of its route leaves the
\* attendance table, the three registries, the encoding files and the
\* session store as they were.
C29_RejectedEarly ==
    /\ [](\A image \in ProbeImages, spoof \in SpoofInputs :
            \A listing \in DirListings(adminDisk) :
              RejectedInput(image, spoof, AllEncodings(AdminServiceKnown, listing),
                            ADMIN_RECOGNITION_TOLERANCE)
              => LET r == route_authenticate_admin(image, spoof, listing, nextTok + 1)
                 IN ~r.success /\ r.sessions = sessions /\ r.session_token = NoToken)
    /\ [][\A t \in DOMAIN requests :
            (InStep(t, "idle") /\ Finished(t)')
            => /\ ~requests'[t].out.success
               /\ UNCHANGED RecordsAndRegistries]_vars

C29_Witness ==
    /\ \E t \in DOMAIN requests :
         Finished(t) /\ requests[t].out.message = "Liveness check failed"
    /\ attendance # {}
    /\ DOMAIN sessions # {}


\* C30: identify_face branches on the number of face regions before it
\* matches: no region is answered "No face detected", several regions
\* "Multiple faces detected", whatever the registry holds; a success comes
\* from exactly one region; an empty searched registry is answered with a
\* failure; and every failure carries person_id = None.
C30_Branches ==
    \A image \in MatcherProbes, tol \in Tolerances :
      \A listing \in DirListings(adminDisk) :
        \A all \in {AllEncodings(userKnown, listing), <<>>} :
          LET r == identify_face(image, all, tol)
          IN /\ image.faces = 0
                => ~r.success /\ r.message = "No face detected in the image"
             /\ image.faces > 1
                => ~r.success /\ r.message = "Multiple faces detected"
             /\ r.success => image.faces = 1 /\ all # <<>> /\ r.person_id \in RegIds(all)
             /\ (all = <<>> /\ image.faces = 1)
                => ~r.success /\ r.message \in {"No registered faces in the system",
                                                "Could not encode the detected face"}
             /\ ~r.success => r.person_id = None

C30_Witness ==
    /\ identified.asked
    /\ identified.image = TwoFacesImg
    /\ \E i \in DOMAIN userKnown : userKnown[i].enc = TwoFacesImg.enc
    /\ identified.result = IdentifyFailure("Multiple faces detected")


\* ---------------------------------------- properties: joint search, gates

\* the centroids stored in the subject registry and in the admin registry
StoredCentroids(known, disk) ==
    {[id |-> known[i].id, enc |-> known[i].enc] : i \in DOMAIN known}
      \cup {[id |-> id, enc |-> disk[id]] : id \in DOMAIN disk}

\* the entries of a set of centroids nearest to a probe
Nearest(centroids, probe) ==
    {c \in centroids :
        \A d \in centroids : face_distance(c.enc, probe) <= face_distance(d.enc, probe)}

\* C31: unified identification scans every centroid of the subject registry
\* and every centroid of the admin registry, also when a subject and an
\* admin carry the same id: a probe with one face is recognized exactly when
\* a nearest stored centroid lies within the tolerance, and the id returned
\* is that of a nearest centroid.
C31_JointSearch ==
    \A e \in EmbVals, listing \in DirListings(adminDisk) :
        LET stored == StoredCentroids(userKnown, adminDisk)
            near == Nearest(stored, e)
            r == identify_user(Face(e), userKnown, listing)
        IN stored # {}
           => /\ r.success <=> \E c \in near :
                                 face_distance(c.enc, e) <= FACE_RECOGNITION_TOLERANCE
              /\ r.success => r.person_id \in {c.id : c \in near}


\* ------------------------------------------------ the user administration

\* a running server (InitAttendance): the super admin authenticates,
\* employees are enrolled and deleted, admins are deactivated, time passes
NextUsers ==
    \/ AuthenticateAdmin
    \/ RegisterUser(PersonIds)
    \/ DeleteUser(PersonIds)
    \/ DeactivateAdmin
    \/ Tick(SessionDeltas)

SpecUsers == InitAttendance /\ [][NextUsers]_vars

\* a token that does not pass verify_session: empty, unknown or expired
BadToken(tok) == tok = NoToken \/ tok \notin DOMAIN sessions \/ Stale(tok)

\* the users routes' answer r left the user table, the face registry and
\* the encoding files as they are
UsersUntouched(r) == r.users = users /\ r.known = userKnown /\ r.disk = userDisk

\* C32 as stated: register_user and delete_user answer a missing, unknown
\* or expired admin_session_token with the authorization-required outcome
\* and change nothing, the session store included.
C32_UnauthorizedChangesNothing ==
    \A employee_id \in PersonIds, present \in BOOLEAN, tok \in TokenInputs :
      \A images \in EnrollSamples(employee_id) :
        LET reg == route_register_user(employee_id, present, tok, images)
            del == route_delete_user(employee_id, tok)
        IN /\ (~present \/ BadToken(tok))
                => /\ reg.code = 401 /\ reg.kind = "session_invalid"
                   /\ UsersUntouched(reg) /\ reg.sessions = sessions
           /\ BadToken(tok)
                => /\ del.code = 401 /\ del.kind = "session_invalid"
                   /\ UsersUntouched(del) /\ del.attendance = attendance
                   /\ del.sessions = sessions

\* C32 amended: the effects of register_user and delete_user happen only
\* with a token that is in the store and not expired.  A request whose token
\* is empty, unknown or expired is answered 401 and changes no user record,
\* no face encoding and no attendance record; of the session store it
\* removes the expired token's entry and nothing else.  A register_user
\* body without the key admin_session_token is answered 400 (missing field)
\* and changes nothing at all.
C32_UnauthorizedKeepsUsers ==
    \A employee_id \in PersonIds, present \in BOOLEAN, tok \in TokenInputs :
      \A images \in EnrollSamples(employee_id) :
        LET reg == route_register_user(employee_id, present, tok, images)
            del == route_delete_user(employee_id, tok)
            evicted == IF Stale(tok) THEN Without(sessions, tok) ELSE sessions
        IN /\ ~UsersUntouched(reg) => present /\ Live(tok)
           /\ (~UsersUntouched(del) \/ del.attendance # attendance) => Live(tok)
           /\ ~present
                => /\ reg.code = 400 /\ reg.kind = "missing_field"
                   /\ UsersUntouched(reg) /\ reg.sessions = sessions
           /\ (present /\ BadToken(tok))
                => /\ reg.code = 401 /\ reg.kind = "session_invalid"
                   /\ UsersUntouched(reg) /\ reg.sessions = evicted
           /\ BadToken(tok)
                => /\ del.code = 401 /\ del.kind = "session_invalid"
                   /\ UsersUntouched(del) /\ del.attendance = attendance
                   /\ del.sessions = evicted
           /\ Live(tok) => del.code = 200 /\ employee_id \notin DOMAIN del.disk

C32_Witness ==
    /\ "P2" \notin DOMAIN users
    /\ "P2" \notin DOMAIN userDisk
    /\ "P1" \in DOMAIN userDisk
    /\ \E tok \in DOMAIN sessions : Stale(tok)


\* ------------------------------------ concurrent admin registration

\* One request of POST /api/admin/register per thread of the server, taken
\* apart at its calls to the database and to the face service:
\*   check   is_first_admin(), the session gate and the image checks
\*   face    face_service.register_face
\*   create  get_by_admin_id and, without a row, AdminModel.create
\*   update  update_registration_status, then the answer
Enrolment(pc, admin_id, role, is_first, images, code) ==
    [pc |-> pc, admin_id |-> admin_id, role |-> role, is_first |-> is_first,
     images |-> images, code |-> code]
IdleEnrolment == Enrolment("idle", None, None, FALSE, <<>>, 0)
EnrolAt(t, pc) == enrolments[t].pc = pc
EnrolAnswer(e, code) == [e EXCEPT !.pc = "done", !.code = code]
EnrolFrame == UNCHANGED <<clockVars, adminDbUp, nextTok, userVars, attVars, calls,
                          requests, checks, identified, blink>>

\* routes/admin.py 59-113: the head of the route up to the call of the service
EnrolCheck(t) ==
    \E admin_id \in PersonIds, role_req \in Roles, tok \in TokenInputs :
      \E images \in EnrollSamples(admin_id) :
        LET is_first == is_first_admin(admins, adminDbUp)
            session == verify_session(sessions, admins, adminDbUp, tok, now, now)
            role == IF is_first THEN "super_admin" ELSE role_req
            e == Enrolment("face", admin_id, role, is_first, Decoded(images), 0)
        IN /\ EnrolAt(t, "idle")
           /\ sessions' = IF is_first THEN sessions ELSE session.sessions
           /\ dead' = dead \cup ExpiredTokens(sessions', now)
           /\ enrolments' = [enrolments EXCEPT ![t] =
                IF ~is_first /\ ~session.valid THEN EnrolAnswer(e, 401)
                ELSE IF ~is_first /\ ~IsSuperAdmin(session.role) THEN EnrolAnswer(e, 403)
                ELSE IF ImageGate(images) # "" THEN EnrolAnswer(e, 400)
                ELSE e]
           /\ UNCHANGED <<admins, adminKnown, adminDisk>>
           /\ EnrolFrame

\* services/admin_auth.py 52-55
EnrolFace(t) ==
    LET e == enrolments[t]
        face_result == register_face(adminKnown, adminDisk, e.admin_id, e.images)
    IN /\ EnrolAt(t, "face")
       /\ adminKnown' = face_result.known
       /\ adminDisk' = face_result.disk
       /\ enrolments' = [enrolments EXCEPT ![t] =
            IF face_result.success THEN [e EXCEPT !.pc = "create"] ELSE EnrolAnswer(e, 400)]
       /\ UNCHANGED <<admins, sessions, dead>>
       /\ EnrolFrame

\* services/admin_auth.py 58-60
EnrolCreate(t) ==
    LET e == enrolments[t]
        existing == get_by_admin_id(admins, adminDbUp, e.admin_id)
    IN /\ EnrolAt(t, "create")
       /\ admins' = IF existing = NoRow
                    THEN AdminModel_create(admins, adminDbUp, e.admin_id, e.role)
                    ELSE admins
       /\ enrolments' = [enrolments EXCEPT ![t].pc = "update"]
       /\ UNCHANGED <<adminKnown, adminDisk, sessions, dead>>
       /\ EnrolFrame

\* services/admin_auth.py 63-77
EnrolUpdate(t) ==
    LET e == enrolments[t]
    IN /\ EnrolAt(t, "update")
       /\ admins' = update_registration_status(admins, adminDbUp, e.admin_id, TRUE)
       /\ enrolments' = [enrolments EXCEPT ![t] = EnrolAnswer(e, 200)]
       /\ UNCHANGED <<adminKnown, adminDisk, sessions, dead>>
       /\ EnrolFrame

\* a fresh deployment with the threads of the server idle
InitBootstrap ==
    /\ now = 0
    /\ nTicks = 0
    /\ adminDbUp = TRUE
    /\ admins = EmptyDict
    /\ adminKnown = <<>>
    /\ adminDisk = EmptyDict
    /\ sessions = EmptyDict
    /\ nextTok = 0
    /\ dbUp = TRUE
    /\ users = EmptyDict
    /\ userKnown = <<>>
    /\ userDisk = EmptyDict
    /\ attKnown = <<>>
    /\ prev_frame = NoFrame
    /\ attendance = {}
    /\ nextRowId = 1
    /\ calls = <<>>
    /\ requests = <<>>
    /\ checks = <<>>
    /\ identified = NoReply
    /\ enrolments = [t \in Threads |-> IdleEnrolment]
    /\ blink = NoBlink
    /\ dead = {}

NextBootstrap ==
    \E t \in Threads :
      \/ EnrolCheck(t)
      \/ EnrolFace(t)
      \/ EnrolCreate(t)
      \/ EnrolUpdate(t)

SpecBootstrap == InitBootstrap /\ [][NextBootstrap]_vars

\* the requests granted by the bootstrap path: let through as the first
\* admin, without a session, and answered with success
BootstrapGrants == {t \in DOMAIN enrolments :
                       enrolments[t].pc = "done" /\ enrolments[t].code = 200
                       /\ enrolments[t].is_first}
SuperAdmins == {id \in DOMAIN admins : admins[id].role = "super_admin"}

\* C33: from an empty admin table, however the steps of simultaneous
\* registration requests without a token interleave, at most one request is
\* granted without the session of a super admin and at most one admin has
\* the role super_admin.
C33_OneBootstrap ==
    /\ Cardinality(BootstrapGrants) <= 1
    /\ Cardinality(SuperAdmins) <= 1


\* ------------------------------------- properties: revoked authority

\* the tokens in the store that were minted for an admin who has since been
\* deactivated
RevokedTokens ==
    {tok \in DOMAIN sessions :
        /\ sessions[tok].admin_id \in DOMAIN admins
        /\ ~admins[sessions[tok].admin_id].is_active}

\* C34: once an admin is deactivated, a token minted for that admin lets no
\* session-gated request through, expired or not: user registration, user
\* deletion, admin registration and admin deactivation answer it with a
\* refusal and change nothing.
C34_DeactivationRevokes ==
    \A tok \in RevokedTokens, id \in PersonIds, role_req \in Roles :
      \A images \in EnrollSamples(id) :
        LET reg == route_register_user(id, TRUE, tok, images)
            del == route_delete_user(id, tok)
            adm == route_register_admin(id, role_req, tok, images)
            deact == route_deactivate_admin(id, tok)
        IN /\ Refused(reg.code) /\ UsersUntouched(reg)
           /\ Refused(del.code) /\ UsersUntouched(del) /\ del.attendance = attendance
           /\ Refused(adm.code) /\ RegistryUntouched(adm)
           /\ Refused(deact.code) /\ RegistryUntouched(deact)


\* an admin has been enrolled at some time: the rows of the table are never
\* deleted, and is_registered is never reset
OnceEnrolled == \E id \in DOMAIN admins : admins[id].is_registered

\* C35: the bootstrap path opens at most once.  After the first admin has
\* been enrolled, whatever enrolments, authentications and deactivations
\* follow, a registration request without a token is not granted, and none
\* is given the role super_admin for being the first.
C35_BootstrapOnce ==
    OnceEnrolled =>
      \A admin_id \in PersonIds, role_req \in Roles :
        \A images \in EnrollSamples(admin_id) :
          LET r == route_register_admin(admin_id, role_req, NoToken, images)
          IN r.code = 401 /\ RegistryUntouched(r)


\* ------------------------------------- properties: the liveness gate

\* how many frames of spoof_frames may decode: none, and the counts around
\* the threshold of the routes
DecodedCounts == {0, MIN_SPOOF_FRAMES - 1, MIN_SPOOF_FRAMES, MIN_SPOOF_FRAMES + 1}

\* C36: a route rejects a request for liveness only if spoof detection is
\* enabled, the body has spoof_frames, at least 5 of them decode and the
\* fused verdict is not real.  A request without spoof_frames or with fewer
\* than 5 decodable frames is answered as identification answers it, and no
\* liveness evaluation runs for it: an attendance request is answered
\* "Liveness check failed" only after comprehensive_spoof_check has run and
\* left its frame in prev_frame.
C36_LivenessGate ==
    /\ [](\A image \in ProbeImages, present \in BOOLEAN, decoded \in DecodedCounts,
             real \in BOOLEAN, listing \in DirListings(adminDisk) :
            LET spoof == SpoofInputOf(present, decoded, real)
                r == route_authenticate_admin(image, spoof, listing, nextTok + 1)
                a == authenticate_admin(sessions, admins, adminDbUp,
                                        AllEncodings(AdminServiceKnown, listing),
                                        image, nextTok + 1, now)
            IN /\ r.kind = "liveness"
                    => /\ SPOOF_DETECTION_ENABLED /\ present
                       /\ decoded >= 5 /\ ~real
               /\ (~present \/ decoded < 5)
                    => /\ SpoofCheckRuns(spoof) = FALSE
                       /\ (image.ok /\ ~NoneRegistered)
                            => /\ r.success = a.success
                               /\ r.kind = a.message
                               /\ r.sessions = a.sessions)
    /\ [][\A t \in DOMAIN requests :
            (InStep(t, "idle") /\ Finished(t)'
             /\ requests'[t].out.message = "Liveness check failed")
            => SPOOF_DETECTION_ENABLED /\ prev_frame' = 0]_vars

C36_Witness ==
    /\ \E t \in DOMAIN requests :
         Finished(t) /\ requests[t].out.message = "Liveness check failed"
    /\ prev_frame = 0
    /\ DOMAIN sessions # {}
    /\ attendance = {}


\* ------------------------------ properties: the single-purpose endpoints

\* the records of an employee for the day of the clock
TodaysRecords(employee_id) ==
    {r \in attendance : r.employee_id = employee_id /\ r.date = Day(now)}

\* request t is answered in this step with a reject carrying message, and
\* the table is as before
RejectedWith(t, message) ==
    /\ Finished(t)'
    /\ ~requests'[t].out.success
    /\ requests'[t].out.code = 400
    /\ requests'[t].out.message = message
    /\ attendance' = attendance
    /\ nextRowId' = nextRowId

\* C37: the single-purpose endpoints follow the state of the day as
\* record_punch_in / record_punch_out read it.  A punch-in for an employee
\* who has a record today with punch_in set, open or closed, is rejected as
\* already punched in; a punch-out for an employee without a record today is
\* rejected as no punch-in found; a punch-out on a closed record is rejected
\* as already punched out; and none of the three changes the table.
C37_SinglePurpose ==
    [][\A t \in DOMAIN requests :
         LET q == requests[t]
             today == TodaysRecords(q.employee_id)
         IN /\ (q.op = "punch_in" /\ InStep(t, "in_read") /\ requests'[t] # q
                /\ \E r \in today : r.punch_in # NoTime)
               => RejectedWith(t, "Already punched in today")
            /\ (q.op = "punch_out" /\ InStep(t, "out_read") /\ requests'[t] # q
                /\ today = {})
               => RejectedWith(t, "No punch-in record found for today")
            /\ (q.op = "punch_out" /\ InStep(t, "out_read") /\ requests'[t] # q
                /\ today # {} /\ \A r \in today : r.punch_out # NoTime)
               => RejectedWith(t, "Already punched out today")]_vars

C37_Witness ==
    \E t1, t2 \in DOMAIN requests :
        /\ requests[t1].op = "punch_out" /\ Finished(t1) /\ requests[t1].out.success
        /\ requests[t2].op = "punch_in" /\ Finished(t2)
        /\ requests[t2].out.message = "Already punched in today"
        /\ \E r \in attendance : r.punch_out # NoTime


\* ------------------------------------------------------- blink detection

\* AntiSpoofingService.detect_blink.  Eye aspect ratios are in hundredths.
EYE_AR_THRESH == 25
MaxBlinkFrames == 7

\* a frame as detect_blink sees it: face = face_landmarks finds a face,
\* ear = the mean eye aspect ratio of its two eyes
BlinkFrame(face, ear) == [face |-> face, ear |-> ear]
EarVals == {EYE_AR_THRESH - 1, EYE_AR_THRESH, EYE_AR_THRESH + 1}
BlinkFrames == {BlinkFrame(FALSE, 0)} \cup {BlinkFrame(TRUE, e) : e \in EarVals}
BlinkFrameLists == UNION {[1..n -> BlinkFrames] : n \in 0..MaxBlinkFrames}

\* the loop over enumerate(frames) from frame i (counted from 1): every
\* other frame is skipped (i % 2 != 0 for the index from 0), and so is a
\* frame without landmarks
RECURSIVE ear_values(_, _)
ear_values(frames, i) ==
    IF i > Len(frames) THEN <<>>
    ELSE IF (i - 1) % 2 # 0 \/ ~frames[i].face THEN ear_values(frames, i + 1)
    ELSE <<frames[i].ear>> \o ear_values(frames, i + 1)

\* a plausible slip: a value equal to the threshold counts as a closed eye
AtOrBelow(ear) == ear <= EYE_AR_THRESH

\* ear_values[i] < self.EYE_AR_THRESH
Below(ear) == ear < EYE_AR_THRESH

\* for i in range(1, len(ear_values) - 1), from position i (counted from 1),
\* with the break at the first pattern
RECURSIVE blink_scan(_, _)
blink_scan(values, i) ==
    IF i > Len(values) - 1 THEN FALSE
    ELSE IF /\ Below(values[i])
            /\ values[i - 1] > EYE_AR_THRESH
            /\ values[i + 1] > EYE_AR_THRESH
         THEN TRUE
    ELSE blink_scan(values, i + 1)

\* [success, blink_detected, message]
detect_blink(quick_mode, frames) ==
    LET values == ear_values(frames, 1)
    IN IF quick_mode
       THEN [success |-> TRUE, blink_detected |-> TRUE,
             message |-> "Blink detection skipped (quick mode)"]
       ELSE IF Len(values) < 3
            THEN [success |-> FALSE, blink_detected |-> FALSE,
                  message |-> "Not enough frames with detected face"]
       ELSE [success |-> TRUE, blink_detected |-> blink_scan(values, 2),
             message |-> IF blink_scan(values, 2)
                         THEN "Blink detected - Liveness confirmed"
                         ELSE "No blink detected"]

BlinkCall(quick_mode, frames, called, result) ==
    [called |-> called, quick_mode |-> quick_mode, frames |-> frames, result |-> result]

\* the call returns
DetectBlink ==
    /\ ~blink.called
    /\ blink' = BlinkCall(blink.quick_mode, blink.frames, TRUE,
                          detect_blink(blink.quick_mode, blink.frames))
    /\ UNCHANGED <<clockVars, authVars, userVars, attVars, calls, requests, checks,
                   identified, enrolments, dead>>

\* a service in either mode is about to be called with any list of frames
InitBlink ==
    /\ now = 0
    /\ nTicks = 0
    /\ adminDbUp = TRUE
    /\ admins = EmptyDict
    /\ adminKnown = <<>>
    /\ adminDisk = EmptyDict
    /\ sessions = EmptyDict
    /\ nextTok = 0
    /\ dbUp = TRUE
    /\ users = EmptyDict
    /\ userKnown = <<>>
    /\ userDisk = EmptyDict
    /\ attKnown = <<>>
    /\ prev_frame = NoFrame
    /\ attendance = {}
    /\ nextRowId = 1
    /\ calls = <<>>
    /\ requests = <<>>
    /\ checks = <<>>
    /\ identified = NoReply
    /\ enrolments = <<>>
    /\ blink \in {BlinkCall(quick_mode, frames, FALSE, NoBlink) :
                     quick_mode \in BOOLEAN, frames \in BlinkFrameLists}
    /\ dead = {}

NextBlink == DetectBlink

SpecBlink == InitBlink /\ [][NextBlink]_vars

\* the frames detect_blink samples and finds a face in, by position
Sampled(frames) == {i \in DOMAIN frames : i % 2 = 1 /\ frames[i].face}

\* positions a < b < c of S with no position of S between them
Consecutive(S, a, b, c) ==
    /\ a < b /\ b < c
    /\ ~\E x \in S : (a < x /\ x < b) \/ (b < x /\ x < c)

\* C38: in quick mode detect_blink reports a blink for every input.
\* Otherwise, over the eye aspect ratios of the sampled frames in which a
\* face was found, it reports no blink and success = False when there are
\* fewer than 3 of them, and else reports a blink exactly when some interior
\* value is strictly below the threshold while the values before and after
\* it are strictly above it.
C38_Blink ==
    blink.called =>
      LET frames == blink.frames
          r == blink.result
          S == Sampled(frames)
      IN IF blink.quick_mode THEN r.success /\ r.blink_detected
         ELSE IF Cardinality(S) < 3 THEN ~r.success /\ ~r.blink_detected
         ELSE /\ r.success
              /\ r.blink_detected <=>
                   \E a, b, c \in S :
                     /\ Consecutive(S, a, b, c)
                     /\ frames[b].ear < EYE_AR_THRESH
                     /\ frames[a].ear > EYE_AR_THRESH
                     /\ frames[c].ear > EYE_AR_THRESH

C38_Witness ==
    /\ blink.called
    /\ ~blink.quick_mode
    /\ Len(blink.frames) = MaxBlinkFrames
    /\ \E i \in DOMAIN blink.frames : ~blink.frames[i].face
    /\ \E i \in DOMAIN blink.frames :
         i % 2 = 1 /\ blink.frames[i].face /\ blink.frames[i].ear = EYE_AR_THRESH
    /\ blink.result.success
    /\ blink.result.blink_detected

====
